---------------------------- MODULE DeviceProofs ----------------------------
(***************************************************************************)
(* The parts of the device program, proved for every value of the          *)
(* constants.  Each part has an inductive invariant and one lemma per      *)
(* action; the theorems at the end put them together.                      *)
(***************************************************************************)
EXTENDS Device, SequenceTheorems, FiniteSetTheorems, WellFoundedInduction, TLAPS

\* The cardinality that the instance of the speculation uses is that of FiniteSets.
LEMMA SameCount == \A S : Decode!Cardinality(S) = Cardinality(S)
BY DEF Decode!Cardinality, Cardinality

\* So is that of the metadata.
LEMMA SameCardinality == \A S : Metadata!Cardinality(S) = Cardinality(S)
BY DEF Metadata!Cardinality, Cardinality

-----------------------------------------------------------------------------
(* Speculation over the paged cache *)
\* A set of naturals that is not empty has a least element.
LEMMA LeastElement ==
  ASSUME NEW T, T \subseteq Nat, T # {}
  PROVE  \E x \in T : \A y \in T : x <= y
<1>. DEFINE R == OpToRel(<, Nat)
<1>1. IsWellFoundedOn(R, Nat)
  BY NatLessThanWellFounded
<1>. HIDE DEF R
<1>2. PICK x \in T : \A y \in T : <<y, x>> \notin R
  BY <1>1, WFMin
<1>3. \A y \in T : ~(y < x)
  BY <1>2 DEF R, OpToRel
<1>. QED BY <1>2, <1>3

\* A function on 1..n is a sequence of length n.
LEMMA FunctionIsSeq ==
  ASSUME NEW S, NEW n \in Nat, NEW f \in [1..n -> S]
  PROVE  f \in Seq(S) /\ Len(f) = n
OBVIOUS

\* A prefix of a concatenation that reaches into its second sequence, by its elements.
LEMMA PrefixOfConcat ==
  ASSUME NEW S, NEW c \in Seq(S), NEW t \in Seq(S), NEW i \in 1..Len(t),
         NEW f \in [1..(Len(c) + i - 1) -> S],
         \A q \in 1..(Len(c) + i - 1) : f[q] = IF q <= Len(c) THEN c[q] ELSE t[q - Len(c)]
  PROVE  SubSeq(c \o t, 1, Len(c) + i - 1) = f
<1>1. /\ c \o t \in Seq(S) /\ Len(c \o t) = Len(c) + Len(t)
      /\ \A q \in 1..(Len(c) + Len(t)) : (c \o t)[q] = IF q <= Len(c) THEN c[q]
                                             ELSE t[q - Len(c)]
  BY ConcatProperties
<1>2. Len(c) + i - 1 \in Nat /\ Len(c) + i - 1 <= Len(c) + Len(t)
  OBVIOUS
<1>3. \A q \in 1..(Len(c) + i - 1) : (c \o t)[q] \in S /\ (c \o t)[q] = f[q]
  BY <1>1, <1>2, ElementOfSeq
<1>4. /\ SubSeq(c \o t, 1, Len(c) + i - 1) \in Seq(S)
      /\ Len(SubSeq(c \o t, 1, Len(c) + i - 1)) = Len(c) + i - 1
      /\ \A q \in 1..(Len(c) + i - 1) : SubSeq(c \o t, 1, Len(c) + i - 1)[q] = f[q]
  BY <1>1, <1>2, <1>3, SubSeqProperties
<1>5. f \in Seq(S) /\ Len(f) = Len(c) + i - 1
  <2>. DEFINE m == Len(c) + i - 1
  <2>1. m \in Nat /\ f \in [1..m -> S]
    BY <1>2
  <2>. HIDE DEF m
  <2>2. f \in Seq(S) /\ Len(f) = m
    BY <2>1, FunctionIsSeq
  <2>. QED  BY <2>2 DEF m
<1>. QED  BY <1>4, <1>5, SeqEqual

\* The draft tokens that match, each with all before it, are a prefix of the draft.
LEMMA LeadingMatchIsPrefix ==
  ASSUME NEW d \in Decode!Drafts, NEW predicted
  PROVE  \E n \in 0..K : Decode!LeadingMatch(d, predicted) = 1..n
<1>. DEFINE Miss == {i \in 1..K : d[i] # predicted[i]}
<1>. K \in Nat \ {0}
  BY SpeculationAssumption DEF Decode!AcceptAssumption
<1>1. CASE Miss = {}
  <2>1. Decode!LeadingMatch(d, predicted) = 1..K
    BY <1>1 DEF Decode!LeadingMatch
  <2>. QED  BY <2>1
<1>2. CASE Miss # {}
  <2>1. PICK m \in Miss : \A i \in Miss : m <= i
    <3>. HIDE DEF Miss
    <3>1. Miss \subseteq Nat
      BY DEF Miss
    <3>. QED  BY <1>2, <3>1, LeastElement
  <2>2. \A i \in 1..(m - 1) : d[i] = predicted[i]
    BY <2>1
  <2>3. Decode!LeadingMatch(d, predicted) = 1..(m - 1)
    BY <2>1, <2>2 DEF Decode!LeadingMatch
  <2>. QED  BY <2>1, <2>3
<1>. QED  BY <1>1, <1>2

\* What greedy_accept keeps of a draft is what the target predicts there, and every
\* draft token before the last column is one it accepted.
LEMMA AcceptanceKeepsPrediction ==
  ASSUME NEW d \in Decode!Drafts, NEW predicted \in [1..(K + 1) -> Tokens]
  PROVE  /\ Decode!GreedyCount(d, predicted) \in 1..(K + 1)
         /\ \A i \in 1..Decode!GreedyCount(d, predicted) :
              Decode!GreedyRow(d, predicted)[i] = predicted[i]
         /\ \A i \in 1..(Decode!GreedyCount(d, predicted) - 1) : d[i] = predicted[i]
<1>. K \in Nat \ {0}
  BY SpeculationAssumption DEF Decode!AcceptAssumption
<1>1. PICK n \in 0..K : Decode!LeadingMatch(d, predicted) = 1..n
  BY LeadingMatchIsPrefix
<1>2. Decode!AcceptedDrafts(d, predicted) = n
  BY <1>1, FS_Interval, SameCount DEF Decode!AcceptedDrafts
<1>3. ASSUME NEW i \in 1..n PROVE d[i] = predicted[i]
  <2>1. i \in Decode!LeadingMatch(d, predicted) /\ i \in 1..i
    BY <1>1
  <2>. QED  BY <2>1 DEF Decode!LeadingMatch
<1>4. Decode!FinalToken(d, predicted) = predicted[n + 1]
  BY <1>2 DEF Decode!FinalToken
<1>5. Decode!GreedyCount(d, predicted) = n + 1
  BY <1>2 DEF Decode!GreedyCount
<1>6. \A i \in 1..(n + 1) : Decode!GreedyRow(d, predicted)[i] = predicted[i]
  BY <1>2, <1>3, <1>4 DEF Decode!GreedyRow
<1>. QED  BY <1>3, <1>5, <1>6

\* The positions that a slot may write: its context, and the drafts of a pass or two
\* beyond it.
Span == 0..(MaxLength + 2 * K)

\* Block and offset of a position below a limit.
LEMMA BlockOfPosition ==
  ASSUME NEW p \in Nat, NEW limit \in Nat, NEW size \in Nat \ {0}, p <= limit
  PROVE  p \div size \in 0..(limit \div size) /\ p % size \in 0..(size - 1)
<1>1. p \div size \in Nat /\ p % size \in 0..(size - 1)
  OBVIOUS
<1>2. p \div size <= limit \div size
  OBVIOUS
<1>3. limit \div size \in Nat
  OBVIOUS
<1>. QED  BY <1>1, <1>2, <1>3

\* Slots and positions that a pass may write map to distinct physical slots.
LEMMA PagesDistinct ==
  /\ \A s \in Slots, p \in Span : Decode!SlotMapping(s, p) \in Decode!PhysicalSlots
  /\ \A s, t \in Slots, p, q \in Span :
       Decode!SlotMapping(s, p) = Decode!SlotMapping(t, q) => s = t /\ p = q
<1>. USE SpeculationAssumption DEF Decode!AcceptAssumption, Decode!PagedAssumption
<1>1. ASSUME NEW p \in Span
      PROVE  p \div BlockSize \in 0..Decode!LastBlock /\ p % BlockSize \in 0..(BlockSize - 1)
  <2>1. p \in Nat /\ MaxLength + 2 * K \in Nat /\ p <= MaxLength + 2 * K
    BY DEF Span
  <2>. QED  BY <2>1, BlockOfPosition DEF Decode!LastBlock
<1>2. ASSUME NEW p \in Span, NEW q \in Span,
             p \div BlockSize = q \div BlockSize, p % BlockSize = q % BlockSize
      PROVE  p = q
  BY <1>2 DEF Span
<1>3. ASSUME NEW s \in Slots, NEW p \in Span
      PROVE  Decode!SlotMapping(s, p) \in Decode!PhysicalSlots
  <2>1. BlockTable[s] \in [0..Decode!LastBlock -> Blocks]
    OBVIOUS
  <2>2. BlockTable[s][p \div BlockSize] \in Blocks
    BY <1>1, <2>1, Zenon
  <2>. QED  BY <1>1, <2>2 DEF Decode!SlotMapping, Decode!PhysicalSlots
<1>4. ASSUME NEW s \in Slots, NEW t \in Slots, NEW p \in Span, NEW q \in Span,
             Decode!SlotMapping(s, p) = Decode!SlotMapping(t, q)
      PROVE  s = t /\ p = q
  <2>1. /\ BlockTable[s][p \div BlockSize] = BlockTable[t][q \div BlockSize]
        /\ p % BlockSize = q % BlockSize
    BY <1>4 DEF Decode!SlotMapping
  <2>. QED  BY <1>1, <1>2, <2>1
<1>. QED  BY <1>3, <1>4

\* What the constants are.
LEMMA SpeculationConstants ==
  /\ K \in Nat \ {0} /\ BlockSize \in Nat \ {0} /\ MaxLength \in Nat
  /\ Budget \in Nat \ {0}
  /\ \A s \in Slots : /\ Prompt[s] \in Seq(Tokens) /\ Prompt[s] # <<>>
                      /\ Len(Prompt[s]) \in 1..MaxLength
BY SpeculationAssumption DEF Decode!AcceptAssumption, Decode!PagedAssumption

(* A slot stays within the blocks that were reserved for it: a live one is  *)
(* at the end of its context, a parked one has been rewound.                *)
WithinBlocks ==
  \A s \in Slots :
    /\ numComputed[s] < MaxLength + K
    /\ Len(context[s]) \in Len(Prompt[s])..(MaxLength + K)

\* The inductive invariant of speculation.
SpeculationIInv == Decode!TypeOK /\ WithinBlocks /\ Decode!Lossless /\ Decode!CacheHoldsContext

\* The invariant holds after the handoff: the prompt is cached, the rest is stale.
LEMMA SpeculationInit == Decode!Init => SpeculationIInv
<1>. SUFFICES ASSUME Decode!Init PROVE SpeculationIInv
  OBVIOUS
<1>. USE SpeculationConstants
<1>1. PICK stale \in Stale : cache = Decode!PrefilledCache(stale)
  BY DEF Decode!Init
<1>2. stale \in [Decode!PhysicalSlots -> Tokens]
  BY SpeculationAssumption DEF Decode!StaleAssumption
<1>3. ASSUME NEW x \in Decode!PhysicalSlots, NEW w \in Decode!Prefilled(x)
      PROVE  w[1] \in Slots /\ w[2] \in Span /\ Prompt[w[1]][w[2] + 1] \in Tokens
  <2>1. w[1] \in Slots /\ w[2] \in 0..MaxLength /\ w[2] < Len(Prompt[w[1]]) - 1
    BY DEF Decode!Prefilled
  <2>2. w[2] + 1 \in 1..Len(Prompt[w[1]])
    BY <2>1
  <2>. QED  BY <2>1, <2>2, ElementOfSeq DEF Span
<1>4. cache \in [Decode!PhysicalSlots -> Tokens]
  <2>1. ASSUME NEW x \in Decode!PhysicalSlots PROVE Decode!PrefilledCache(stale)[x] \in Tokens
    <3>1. CASE Decode!Prefilled(x) = {}
      BY <1>2, <3>1 DEF Decode!PrefilledCache
    <3>2. CASE Decode!Prefilled(x) # {}
      <4>1. PICK w : w \in Decode!Prefilled(x) /\ Decode!PrefilledCache(stale)[x]
                   = Prompt[w[1]][w[2] + 1]
        BY <3>2 DEF Decode!PrefilledCache
      <4>. QED  BY <1>3, <4>1
    <3>. QED  BY <3>1, <3>2
  <2>. QED  BY <1>1, <2>1 DEF Decode!PrefilledCache
<1>5. Decode!TypeOK
  <2>1. \A s \in Slots : Prompt[s][Len(Prompt[s])] \in Tokens
    BY ElementOfSeq
  <2>2. \A s \in Slots : Len(Prompt[s]) - 1 \in Nat
    OBVIOUS
  <2>3. Prompt \in [Slots -> Seq(Tokens)]
    BY SpeculationAssumption DEF Decode!PagedAssumption
  <2>. QED  BY <1>4, <2>1, <2>2, <2>3 DEF Decode!Init, Decode!TypeOK
<1>6. WithinBlocks
  BY DEF Decode!Init, WithinBlocks
<1>7. Decode!Lossless
  BY DEF Decode!Init, Decode!Lossless
<1>8. Decode!CacheHoldsContext
  <2>1. ASSUME NEW s \in Slots, NEW p \in 0..(Len(Prompt[s]) - 2)
        PROVE  cache[Decode!SlotMapping(s, p)] = Prompt[s][p + 1]
    <3>1. p \in Span /\ p \in 0..MaxLength
      BY DEF Span
    <3>2. Decode!SlotMapping(s, p) \in Decode!PhysicalSlots
      BY <3>1, PagesDistinct
    <3>3. <<s, p>> \in Decode!Prefilled(Decode!SlotMapping(s, p))
      BY <3>1 DEF Decode!Prefilled
    <3>4. PICK w \in Decode!Prefilled(Decode!SlotMapping(s, p)) :
            cache[Decode!SlotMapping(s, p)] = Prompt[w[1]][w[2] + 1]
      BY <1>1, <3>2, <3>3 DEF Decode!PrefilledCache
    <3>5. Decode!SlotMapping(w[1], w[2]) = Decode!SlotMapping(s, p)
      BY <3>4 DEF Decode!Prefilled
    <3>6. w[1] \in Slots /\ w[2] \in Span
      BY <1>3, <3>2
    <3>7. w[1] = s /\ w[2] = p
      <4>1. \A t \in Slots, q \in Span : Decode!SlotMapping(t, q)
              = Decode!SlotMapping(s, p) => t = s /\ q = p
        BY <3>1, PagesDistinct
      <4>. QED  BY <3>5, <3>6, <4>1
    <3>. QED  BY <3>4, <3>7
  <2>. QED  BY <2>1 DEF Decode!Init, Decode!CacheHoldsContext
<1>. QED  BY <1>5, <1>6, <1>7, <1>8 DEF SpeculationIInv

(* Two blocks below the reservation is still at or behind the prompt's end. *)
LEMMA ParkedBelow ==
  ASSUME NEW first \in Nat \ {0}, NEW len \in Nat, len - first >= Budget
  PROVE  LET rewound == first - 1 + (IF Budget > 2 * BlockSize THEN Budget - 2 * BlockSize
                                    ELSE 0)
         IN rewound \in Nat /\ rewound < len
<1>1. BlockSize \in Nat /\ Budget \in Nat \ {0}
  BY SpeculationConstants
<1>. QED  BY <1>1

\* Parking a slot keeps the invariant: it rewinds the count but no token.
LEMMA ParkKeeps ==
  ASSUME SpeculationIInv, NEW s \in Slots, Decode!Park(s) PROVE SpeculationIInv'
<1>. USE SpeculationConstants DEF SpeculationIInv
<1>1. Decode!ParkedPosition(s) \in Nat /\ Decode!ParkedPosition(s) < Len(context[s])
  <2>1. Len(context[s]) - Len(Prompt[s]) >= Budget
    BY DEF Decode!Park
  <2>2. Len(context[s]) \in Nat /\ Len(Prompt[s]) \in Nat \ {0}
    BY DEF WithinBlocks
  <2>. QED  BY <2>1, <2>2, ParkedBelow DEF Decode!ParkedPosition
<1>2. Decode!TypeOK'
  BY <1>1 DEF Decode!Park, Decode!TypeOK
<1>3. WithinBlocks'
  BY <1>1 DEF Decode!Park, WithinBlocks, Decode!TypeOK
<1>4. Decode!Lossless'
  BY DEF Decode!Park, Decode!Lossless
<1>5. Decode!CacheHoldsContext'
  <2>1. \A t \in Slots : active'[t] => active[t] /\ numComputed'[t] = numComputed[t]
    BY DEF Decode!Park, Decode!TypeOK
  <2>2. cache' = cache /\ context' = context /\ lastToken' = lastToken
    BY DEF Decode!Park
  <2>3. \A t \in Slots, p \in Span : Decode!SlotMapping(t, p)' = Decode!SlotMapping(t, p)
    BY DEF Decode!SlotMapping
  <2>. QED  BY <2>1, <2>2, <2>3 DEF Decode!CacheHoldsContext
<1>. QED  BY <1>2, <1>3, <1>4, <1>5

\* The columns of a target pass.
Submitted == 0..K

(* The positions of a pass lie in the slot's own blocks.                    *)
LEMMA PositionInSpan ==
  ASSUME SpeculationIInv, NEW s \in Slots, NEW j \in Submitted
  PROVE  Decode!TargetPosition(s, j) \in Span
BY SpeculationConstants
   DEF SpeculationIInv, Decode!TypeOK, WithinBlocks, Decode!TargetPosition, Span, Submitted

\* A column carries the last token or one of the draft.
LEMMA TargetIdType ==
  ASSUME SpeculationIInv, NEW s \in Slots, NEW j \in Submitted
  PROVE  Decode!TargetId(s, j) \in Tokens
<1>1. lastToken[s] \in Tokens /\ draft[s] \in [1..K -> Tokens]
  BY DEF SpeculationIInv, Decode!TypeOK, Decode!Drafts
<1>. QED  BY <1>1, SpeculationConstants DEF Decode!TargetId, Submitted

(* A pass leaves each submitted token at its position and nothing else.     *)
LEMMA PassWrites ==
  ASSUME SpeculationIInv
  PROVE  /\ Decode!CacheAfterTarget \in [Decode!PhysicalSlots -> Tokens]
         /\ \A s \in Slots, j \in Submitted :
              Decode!CacheAfterTarget[Decode!SlotMapping(s, Decode!TargetPosition(s, j))]
                = Decode!TargetId(s, j)
         /\ \A s \in Slots, p \in Span : p < numComputed[s] =>
              Decode!CacheAfterTarget[Decode!SlotMapping(s, p)]
                = cache[Decode!SlotMapping(s, p)]
<1>1. ASSUME NEW x \in Decode!PhysicalSlots, Decode!Writers(x) # {}
      PROVE  \E t \in Slots, i \in Submitted :
               /\ Decode!SlotMapping(t, Decode!TargetPosition(t, i)) = x
               /\ Decode!CacheAfterTarget[x] = Decode!TargetId(t, i)
  <2>1. PICK w \in Decode!Writers(x) : Decode!CacheAfterTarget[x] = Decode!TargetId(w[1], w[2])
    BY <1>1 DEF Decode!CacheAfterTarget
  <2>2. /\ w[1] \in Slots /\ w[2] \in Submitted
        /\ Decode!SlotMapping(w[1], Decode!TargetPosition(w[1], w[2])) = x
    BY <2>1 DEF Decode!Writers, Submitted
  <2>. QED  BY <2>1, <2>2
<1>2. ASSUME NEW x \in Decode!PhysicalSlots, Decode!Writers(x) = {}
      PROVE  Decode!CacheAfterTarget[x] = cache[x]
  BY <1>2 DEF Decode!CacheAfterTarget
<1>3. Decode!CacheAfterTarget \in [Decode!PhysicalSlots -> Tokens]
  <2>1. \A x \in Decode!PhysicalSlots : Decode!CacheAfterTarget[x] \in Tokens
    BY <1>1, <1>2, TargetIdType DEF SpeculationIInv, Decode!TypeOK
  <2>. QED  BY <2>1 DEF Decode!CacheAfterTarget
<1>4. ASSUME NEW s \in Slots, NEW j \in Submitted
      PROVE  Decode!CacheAfterTarget[Decode!SlotMapping(s, Decode!TargetPosition(s, j))]
               = Decode!TargetId(s, j)
  <2>. DEFINE x == Decode!SlotMapping(s, Decode!TargetPosition(s, j))
  <2>1. Decode!TargetPosition(s, j) \in Span
    BY PositionInSpan
  <2>2. x \in Decode!PhysicalSlots
    BY <2>1, PagesDistinct
  <2>3. <<s, j>> \in Decode!Writers(x)
    BY DEF Decode!Writers, Submitted
  <2>4. PICK t \in Slots, i \in Submitted :
          /\ Decode!SlotMapping(t, Decode!TargetPosition(t, i)) = x
          /\ Decode!CacheAfterTarget[x] = Decode!TargetId(t, i)
    BY <1>1, <2>2, <2>3
  <2>5. t = s /\ Decode!TargetPosition(t, i) = Decode!TargetPosition(s, j)
    BY <2>1, <2>4, PositionInSpan, PagesDistinct
  <2>6. i = j
    BY <2>5, SpeculationConstants
       DEF SpeculationIInv, Decode!TypeOK, Decode!TargetPosition, Submitted
  <2>. QED  BY <2>4, <2>5, <2>6
<1>5. ASSUME NEW s \in Slots, NEW p \in Span, p < numComputed[s]
      PROVE  Decode!CacheAfterTarget[Decode!SlotMapping(s, p)] = cache[Decode!SlotMapping(s, p)]
  <2>1. Decode!SlotMapping(s, p) \in Decode!PhysicalSlots
    BY PagesDistinct
  <2>2. ASSUME Decode!Writers(Decode!SlotMapping(s, p)) # {} PROVE FALSE
    <3>1. PICK t \in Slots, i \in Submitted :
            Decode!SlotMapping(t, Decode!TargetPosition(t, i)) = Decode!SlotMapping(s, p)
      BY <1>1, <2>1, <2>2
    <3>2. t = s /\ Decode!TargetPosition(t, i) = p
      BY <3>1, PositionInSpan, PagesDistinct
    <3>. QED  BY <1>5, <3>2
                 DEF SpeculationIInv, Decode!TypeOK, Decode!TargetPosition, Submitted
  <2>. QED  BY <1>2, <2>1, <2>2
<1>. QED  BY <1>3, <1>4, <1>5

(* What column j of a live slot attends to: its context and j draft tokens. *)
LEMMA AttendedContext ==
  ASSUME SpeculationIInv, NEW s \in Slots, NEW j \in Submitted
  PROVE  /\ Decode!Attended(s, j) \in [1..(numComputed[s] + j + 1) -> Tokens]
         /\ active[s] => \A i \in 1..(Len(context[s]) + j) :
              Decode!Attended(s, j)[i] = IF i <= Len(context[s]) THEN context[s][i]
                                  ELSE draft[s][i - Len(context[s])]
<1>. USE SpeculationConstants
<1>0. numComputed[s] \in Nat /\ numComputed[s] < MaxLength + K /\ j \in 0..K
  BY DEF SpeculationIInv, Decode!TypeOK, WithinBlocks, Submitted
<1>1. ASSUME NEW i \in 1..(numComputed[s] + j + 1)
      PROVE  i - 1 \in Span /\ Decode!SlotMapping(s, i - 1) \in Decode!PhysicalSlots
  <2>1. i - 1 \in Span
    BY <1>0 DEF Span
  <2>. QED  BY <2>1, PagesDistinct
<1>2. Decode!Attended(s, j) \in [1..(numComputed[s] + j + 1) -> Tokens]
  <2>1. \A i \in 1..(numComputed[s] + j + 1) :
          Decode!CacheAfterTarget[Decode!SlotMapping(s, i - 1)] \in Tokens
    BY <1>1, PassWrites
  <2>. QED  BY <2>1 DEF Decode!Attended, Decode!TargetPosition
<1>3. ASSUME active[s], NEW i \in 1..(Len(context[s]) + j)
      PROVE  Decode!Attended(s, j)[i] = IF i <= Len(context[s]) THEN context[s][i]
                                 ELSE draft[s][i - Len(context[s])]
  <2>1. /\ numComputed[s] = Len(context[s]) - 1 /\ Len(context[s]) \in Nat
        /\ lastToken[s] = context[s][Len(context[s])]
        /\ \A p \in 0..(numComputed[s] - 1) : cache[Decode!SlotMapping(s, p)]
             = context[s][p + 1]
    BY <1>3 DEF SpeculationIInv, Decode!CacheHoldsContext, WithinBlocks
  <2>2. i \in 1..(numComputed[s] + j + 1)
    BY <1>0, <2>1
  <2>3. Decode!Attended(s, j)[i] = Decode!CacheAfterTarget[Decode!SlotMapping(s, i - 1)]
    BY <2>2 DEF Decode!Attended, Decode!TargetPosition
  <2>4. CASE i < Len(context[s])
    <3>1. i - 1 \in Span /\ i - 1 < numComputed[s] /\ i - 1 \in 0..(numComputed[s] - 1)
      BY <1>1, <2>1, <2>2, <2>4
    <3>2. Decode!CacheAfterTarget[Decode!SlotMapping(s, i - 1)]
            = cache[Decode!SlotMapping(s, i - 1)]
      BY <3>1, PassWrites
    <3>. QED  BY <2>1, <2>3, <2>4, <3>1, <3>2
  <2>5. CASE i >= Len(context[s])
    <3>. DEFINE c == i - Len(context[s])
    <3>1. c \in Submitted /\ i - 1 = Decode!TargetPosition(s, c)
      BY <1>0, <2>1, <2>5 DEF Decode!TargetPosition, Submitted
    <3>2. Decode!CacheAfterTarget[Decode!SlotMapping(s, i - 1)] = Decode!TargetId(s, c)
      BY <3>1, PassWrites
    <3>. QED  BY <2>1, <2>3, <2>5, <3>2 DEF Decode!TargetId
  <2>. QED  BY <2>1, <2>4, <2>5
<1>. QED  BY <1>2, <1>3

\* The target predicts a token for every column.
LEMMA PredictedType ==
  ASSUME SpeculationIInv, NEW s \in Slots
  PROVE  Decode!Predicted(s) \in [1..(K + 1) -> Tokens]
<1>. USE SpeculationConstants
<1>1. ASSUME NEW c \in 1..(K + 1) PROVE Model(Decode!Attended(s, c - 1)) \in Tokens
  <2>1. c - 1 \in Submitted
    BY DEF Submitted
  <2>2. numComputed[s] + (c - 1) + 1 \in 1..(MaxLength + 2 * K)
    BY DEF SpeculationIInv, Decode!TypeOK, WithinBlocks
  <2>3. Decode!Attended(s, c - 1) \in [1..(numComputed[s] + (c - 1) + 1) -> Tokens]
    BY <2>1, AttendedContext
  <2>. QED  BY <2>2, <2>3, SpeculationAssumption DEF Decode!ModelAssumption
<1>. QED  BY <1>1 DEF Decode!Predicted

(* What the cycle gives a live slot: between one and K + 1 tokens, each of  *)
(* them the target's choice after everything before it.                     *)
Continues(s, tokens) ==
  /\ tokens \in Seq(Tokens) /\ Len(tokens) \in 1..(K + 1)
  /\ \A i \in 1..Len(tokens) :
       tokens[i] = Model(SubSeq(context[s] \o tokens, 1, Len(context[s]) + i - 1))
  /\ \A i \in 1..(Len(tokens) - 1) : draft[s][i] = tokens[i]

\* What the cycle appends to a slot's output.
Gained(s) ==
  SubSeq(Decode!GreedyRow(draft[s], Decode!Predicted(s)), 1,
    Decode!GreedyCount(draft[s], Decode!Predicted(s)))

\* Accepting what the target predicts continues the context as the target would have.
LEMMA GainedContinues ==
  ASSUME SpeculationIInv, NEW s \in Slots, active[s]
  PROVE  /\ Continues(s, Gained(s))
         /\ Len(Gained(s)) = Decode!GreedyCount(draft[s], Decode!Predicted(s))
         /\ Decode!GreedyRow(draft[s],
              Decode!Predicted(s))[Decode!GreedyCount(draft[s], Decode!Predicted(s))]
              = Gained(s)[Len(Gained(s))]
<1>. DEFINE row == Decode!GreedyRow(draft[s], Decode!Predicted(s))
            count == Decode!GreedyCount(draft[s], Decode!Predicted(s))
            n == Len(context[s])
<1>. USE SpeculationConstants
<1>1. /\ draft[s] \in Decode!Drafts /\ context[s] \in Seq(Tokens) /\ n \in Nat \ {0}
      /\ numComputed[s] = n - 1
  BY DEF SpeculationIInv, Decode!TypeOK, WithinBlocks, Decode!CacheHoldsContext
<1>2. Decode!Predicted(s) \in [1..(K + 1) -> Tokens]
  BY PredictedType
<1>3. /\ count \in 1..(K + 1)
      /\ \A i \in 1..count : row[i] = Decode!Predicted(s)[i]
      /\ \A i \in 1..(count - 1) : draft[s][i] = Decode!Predicted(s)[i]
  BY <1>1, <1>2, AcceptanceKeepsPrediction
<1>. HIDE DEF row, count
<1>4. /\ Gained(s) \in Seq(Tokens) /\ Len(Gained(s)) = count
      /\ \A i \in 1..count : Gained(s)[i] = Decode!Predicted(s)[i]
  <2>1. \A i \in 1..count : row[i] \in Tokens
    BY <1>2, <1>3
  <2>2. /\ SubSeq(row, 1, count) \in Seq(Tokens) /\ Len(SubSeq(row, 1, count)) = count
        /\ \A i \in 1..count : SubSeq(row, 1, count)[i] = row[i]
    BY <1>3, <2>1, SubSeqProperties
  <2>. QED  BY <1>3, <2>2 DEF Gained, row, count
<1>5. ASSUME NEW i \in 1..count
      PROVE  SubSeq(context[s] \o Gained(s), 1, n + i - 1) = Decode!Attended(s, i - 1)
  <2>1. i - 1 \in Submitted /\ i \in 1..Len(Gained(s))
    BY <1>3, <1>4 DEF Submitted
  <2>2. /\ Decode!Attended(s, i - 1) \in [1..(n + i - 1) -> Tokens]
        /\ \A q \in 1..(n + i - 1) :
             Decode!Attended(s, i - 1)[q] = IF q <= n THEN context[s][q] ELSE draft[s][q - n]
    <3>1. numComputed[s] + (i - 1) + 1 = n + i - 1 /\ n + (i - 1) = n + i - 1
      BY <1>1, <1>3
    <3>. QED  BY <2>1, <3>1, AttendedContext
  <2>3. ASSUME NEW q \in 1..(n + i - 1), q > n PROVE draft[s][q - n] = Gained(s)[q - n]
    <3>1. q - n \in 1..(count - 1) /\ q - n \in 1..count
      BY <1>1, <1>3, <2>3
    <3>. QED  BY <1>3, <1>4, <3>1
  <2>4. \A q \in 1..(n + i - 1) :
          Decode!Attended(s, i - 1)[q] = IF q <= n THEN context[s][q] ELSE Gained(s)[q - n]
    BY <1>1, <2>2, <2>3
  <2>. QED  BY <1>1, <1>4, <2>1, <2>2, <2>4, PrefixOfConcat
<1>6. ASSUME NEW i \in 1..count
      PROVE  Gained(s)[i] = Model(SubSeq(context[s] \o Gained(s), 1, n + i - 1))
  <2>1. Decode!Predicted(s)[i] = Model(Decode!Attended(s, i - 1))
    BY <1>3 DEF Decode!Predicted
  <2>. QED  BY <1>4, <1>5, <2>1
<1>7. Continues(s, Gained(s))
  <2>1. \A i \in 1..(count - 1) : draft[s][i] = Gained(s)[i]
    BY <1>3, <1>4
  <2>. QED  BY <1>3, <1>4, <1>6, <2>1 DEF Continues
<1>8. row[count] = Gained(s)[count]
  BY <1>3, <1>4
<1>. QED  BY <1>4, <1>7, <1>8 DEF row, count

\* A cycle appends to a live slot's context what it has gained.
LEMMA LiveSlotContinues ==
  ASSUME SpeculationIInv, Decode!Cycle, NEW s \in Slots, active[s]
  PROVE  /\ context'[s] = context[s] \o Gained(s)
         /\ numComputed'[s] = numComputed[s] + Len(Gained(s))
         /\ lastToken'[s] = Gained(s)[Len(Gained(s))]
         /\ Continues(s, Gained(s))
<1>1. /\ Continues(s, Gained(s))
      /\ Len(Gained(s)) = Decode!GreedyCount(draft[s], Decode!Predicted(s))
      /\ Decode!GreedyRow(draft[s],
           Decode!Predicted(s))[Decode!GreedyCount(draft[s], Decode!Predicted(s))]
           = Gained(s)[Len(Gained(s))]
  BY GainedContinues
<1>2. Decode!GreedyCount(draft[s], Decode!Predicted(s)) > 0
  BY <1>1, SpeculationConstants DEF Continues
<1>. QED  BY <1>1, <1>2 DEF Decode!Cycle, Gained

\* A cycle leaves a parked slot's context and count alone.
LEMMA ParkedSlotRests ==
  ASSUME SpeculationIInv, Decode!Cycle, NEW s \in Slots, ~active[s]
  PROVE  /\ context'[s] = context[s] /\ numComputed'[s] = numComputed[s]
         /\ lastToken'[s] = lastToken[s]
<1>1. context'[s] = context[s] \o SubSeq(Decode!GreedyRow(draft[s], Decode!Predicted(s)), 1, 0)
  BY DEF Decode!Cycle
<1>2. context'[s] = context[s]
  BY <1>1, SubSeqEmpty, ConcatEmptySeq DEF SpeculationIInv, Decode!TypeOK
<1>3. numComputed'[s] = numComputed[s] + 0 /\ lastToken'[s] = lastToken[s]
  BY DEF Decode!Cycle
<1>. QED  BY <1>2, <1>3 DEF SpeculationIInv, Decode!TypeOK

(* A cycle starts below the bound and gains at most K + 1 tokens.           *)
LEMMA GainWithin ==
  ASSUME NEW first \in Nat, NEW len \in first..(MaxLength + K), len < MaxLength,
         NEW gain \in 1..(K + 1)
  PROVE  /\ len - 1 + gain < MaxLength + K
         /\ len + gain \in first..(MaxLength + K)
<1>1. K \in Nat \ {0} /\ MaxLength \in Nat
  BY SpeculationConstants
<1>. QED  BY <1>1

\* A cycle keeps the invariant: tokens beyond the new context may be in the cache, those
\* of the context are, and each of them is the target's choice.
LEMMA CycleKeeps ==
  ASSUME SpeculationIInv, Decode!Cycle PROVE SpeculationIInv'
<1>. USE SpeculationConstants
<1>1. /\ \A s \in Slots : context[s] \in Seq(Tokens) /\ numComputed[s] \in Nat
                          /\ lastToken[s] \in Tokens
      /\ active' = active
      /\ cache' = Decode!CacheAfterTarget
      /\ draft' \in [Slots -> Decode!Drafts]
      /\ DOMAIN context' = Slots /\ DOMAIN numComputed' = Slots /\ DOMAIN lastToken' = Slots
  BY DEF SpeculationIInv, Decode!TypeOK, Decode!Cycle
<1>2. ASSUME NEW s \in Slots, active[s]
      PROVE  /\ context'[s] \in Seq(Tokens)
             /\ Len(context'[s]) = Len(context[s]) + Len(Gained(s))
             /\ \A i \in 1..(Len(context[s]) + Len(Gained(s))) :
                  context'[s][i] = IF i <= Len(context[s]) THEN context[s][i]
                                   ELSE Gained(s)[i - Len(context[s])]
             /\ Len(Gained(s)) \in 1..(K + 1) /\ Gained(s) \in Seq(Tokens)
  <2>1. /\ context'[s] = context[s] \o Gained(s) /\ Gained(s) \in Seq(Tokens)
        /\ Len(Gained(s)) \in 1..(K + 1)
    BY <1>2, LiveSlotContinues DEF Continues
  <2>. QED  BY <1>1, <2>1, ConcatProperties
<1>3. Decode!TypeOK'
  <2>1. ASSUME NEW s \in Slots
        PROVE  /\ context'[s] \in Seq(Tokens) /\ numComputed'[s] \in Nat
               /\ lastToken'[s] \in Tokens
    <3>1. CASE active[s]
      <4>1. Gained(s)[Len(Gained(s))] \in Tokens
        BY <1>2, <3>1, ElementOfSeq
      <4>. QED  BY <1>1, <1>2, <3>1, <4>1, LiveSlotContinues
    <3>2. CASE ~active[s]
      BY <1>1, <3>2, ParkedSlotRests
    <3>. QED  BY <3>1, <3>2
  <2>2. /\ context' \in [Slots -> Seq(Tokens)] /\ numComputed' \in [Slots -> Nat]
        /\ lastToken' \in [Slots -> Tokens]
    BY <2>1 DEF Decode!Cycle
  <2>. QED  BY <1>1, <2>2, PassWrites DEF SpeculationIInv, Decode!TypeOK
<1>4. WithinBlocks'
  <2>1. ASSUME NEW s \in Slots
        PROVE  /\ numComputed'[s] < MaxLength + K
               /\ Len(context'[s]) \in Len(Prompt[s])..(MaxLength + K)
    <3>1. CASE active[s]
      <4>1. /\ Len(context[s]) < MaxLength /\ numComputed[s] = Len(context[s]) - 1
            /\ Len(context[s]) \in Len(Prompt[s])..(MaxLength + K)
        BY <3>1 DEF Decode!Cycle, SpeculationIInv, Decode!CacheHoldsContext, WithinBlocks
      <4>2. /\ Len(context'[s]) = Len(context[s]) + Len(Gained(s))
            /\ Len(Gained(s)) \in 1..(K + 1)
            /\ numComputed'[s] = numComputed[s] + Len(Gained(s))
        BY <1>1, <1>2, <3>1, LiveSlotContinues
      <4>. QED  BY <4>1, <4>2, GainWithin
    <3>2. CASE ~active[s]
      BY <3>2, ParkedSlotRests DEF SpeculationIInv, WithinBlocks
    <3>. QED  BY <3>1, <3>2
  <2>. QED  BY <2>1 DEF WithinBlocks
<1>5. Decode!Lossless'
  <2>1. ASSUME NEW s \in Slots, NEW i \in (Len(Prompt[s]) + 1)..Len(context'[s])
        PROVE  context'[s][i] = Model(SubSeq(context'[s], 1, i - 1))
    <3>1. CASE ~active[s]
      BY <3>1, ParkedSlotRests DEF SpeculationIInv, Decode!Lossless
    <3>2. CASE active[s]
      <4>1. /\ context'[s] = context[s] \o Gained(s) /\ Continues(s, Gained(s))
        BY <3>2, LiveSlotContinues
      <4>2. Len(Prompt[s]) \in 1..Len(context[s])
        BY DEF SpeculationIInv, WithinBlocks
      <4>3. i \in 1..(Len(context[s]) + Len(Gained(s))) /\ Len(context[s]) \in Nat
        BY <1>1, <1>2, <3>2, <4>2
      <4>4. context'[s][i] = IF i <= Len(context[s]) THEN context[s][i]
                             ELSE Gained(s)[i - Len(context[s])]
        BY <1>2, <3>2, <4>3
      <4>5. CASE i <= Len(context[s])
        <5>1. i - 1 \in 1..Len(context[s]) /\ 1 \in 1..Len(context[s])
          BY <4>2, <4>5
        <5>2. SubSeq(context'[s], 1, i - 1) = SubSeq(context[s], 1, i - 1)
          BY <1>1, <1>2, <3>2, <4>1, <5>1, SubSeqOfConcat1
        <5>3. context'[s][i] = context[s][i]
          BY <4>4, <4>5
        <5>4. i \in (Len(Prompt[s]) + 1)..Len(context[s])
          BY <4>2, <4>3, <4>5
        <5>. QED  BY <5>2, <5>3, <5>4 DEF SpeculationIInv, Decode!Lossless
      <4>6. CASE i > Len(context[s])
        <5>1. i - Len(context[s]) \in 1..Len(Gained(s))
          BY <1>1, <1>2, <3>2, <4>2, <4>6
        <5>2. Len(context[s]) + (i - Len(context[s])) - 1 = i - 1
          BY <1>1
        <5>3. context'[s][i] = Gained(s)[i - Len(context[s])]
          BY <4>3, <4>4, <4>6
        <5>. QED  BY <4>1, <5>1, <5>2, <5>3 DEF Continues
      <4>. QED  BY <4>3, <4>5, <4>6
    <3>. QED  BY <3>1, <3>2
  <2>. QED  BY <2>1 DEF Decode!Lossless
<1>6. Decode!CacheHoldsContext'
  <2>1. ASSUME NEW s \in Slots, active[s]
        PROVE  /\ numComputed'[s] = Len(context'[s]) - 1
               /\ lastToken'[s] = context'[s][Len(context'[s])]
               /\ \A p \in 0..(numComputed'[s] - 1) :
                    cache'[Decode!SlotMapping(s, p)] = context'[s][p + 1]
    <3>. DEFINE n == Len(context[s])
                m == Len(Gained(s))
    <3>1. /\ numComputed[s] = n - 1 /\ lastToken[s] = context[s][n]
          /\ \A p \in 0..(n - 2) : cache[Decode!SlotMapping(s, p)] = context[s][p + 1]
          /\ n \in Nat \ {0} /\ n < MaxLength
      BY <2>1 DEF Decode!Cycle, SpeculationIInv, Decode!CacheHoldsContext, WithinBlocks
    <3>2. /\ numComputed'[s] = n - 1 + m /\ lastToken'[s] = Gained(s)[m]
          /\ m \in 1..(K + 1) /\ Len(context'[s]) = n + m
          /\ \A i \in 1..(m - 1) : draft[s][i] = Gained(s)[i]
      BY <1>2, <2>1, <3>1, LiveSlotContinues DEF Continues
    <3>. HIDE DEF n, m
    <3>5. ASSUME NEW i \in 1..(n + m)
          PROVE  context'[s][i] = IF i <= n THEN context[s][i] ELSE Gained(s)[i - n]
      BY <1>2, <2>1 DEF n, m
    <3>3. ASSUME NEW p \in 0..(numComputed'[s] - 1)
          PROVE  Decode!CacheAfterTarget[Decode!SlotMapping(s, p)] = context'[s][p + 1]
      <4>1. p \in Span /\ p \in 0..(n + m - 2)
        BY <3>1, <3>2 DEF Span
      <4>2. CASE p < n - 1
        <5>1. Decode!CacheAfterTarget[Decode!SlotMapping(s, p)]
                = cache[Decode!SlotMapping(s, p)]
          BY <3>1, <4>1, <4>2, PassWrites
        <5>2. context'[s][p + 1] = context[s][p + 1]
          <6>1. p + 1 \in 1..(n + m) /\ p + 1 <= n
            BY <3>1, <3>2, <4>1, <4>2
          <6>. QED  BY <3>5, <6>1
        <5>3. p \in 0..(n - 2)
          BY <3>1, <4>1, <4>2
        <5>. QED  BY <3>1, <5>1, <5>2, <5>3
      <4>3. CASE p >= n - 1
        <5>. DEFINE j == p - (n - 1)
        <5>1. j \in Submitted /\ j \in 0..(m - 1) /\ p = Decode!TargetPosition(s, j)
          BY <3>1, <3>2, <4>1, <4>3 DEF Submitted, Decode!TargetPosition
        <5>2. Decode!CacheAfterTarget[Decode!SlotMapping(s, p)] = Decode!TargetId(s, j)
          BY <5>1, PassWrites
        <5>3. CASE j = 0
          <6>1. p + 1 = n
            BY <3>1, <4>1, <5>3
          <6>2. context'[s][n] = context[s][n]
            <7>1. n \in 1..(n + m) /\ n <= n
              BY <3>1, <3>2
            <7>. QED  BY <3>5, <7>1
          <6>. QED  BY <3>1, <5>2, <5>3, <6>1, <6>2 DEF Decode!TargetId
        <5>4. CASE j # 0
          <6>1. j \in 1..(m - 1) /\ p + 1 \in 1..(n + m) /\ p + 1 > n /\ p + 1 - n = j
            BY <3>1, <3>2, <4>1, <5>1, <5>4
          <6>2. context'[s][p + 1] = Gained(s)[p + 1 - n]
            BY <3>1, <3>2, <3>5, <6>1
          <6>3. Decode!TargetId(s, j) = Gained(s)[j]
            BY <3>2, <5>4, <6>1 DEF Decode!TargetId
          <6>. QED  BY <5>2, <6>1, <6>2, <6>3
        <5>. QED  BY <5>3, <5>4
      <4>. QED  BY <3>1, <4>1, <4>2, <4>3
    <3>4. context'[s][n + m] = Gained(s)[m]
      <4>1. n + m \in 1..(n + m) /\ n + m > n /\ n + m - n = m
        BY <3>1, <3>2
      <4>. QED  BY <3>1, <3>2, <3>5, <4>1
    <3>. QED  BY <1>1, <3>1, <3>2, <3>3, <3>4
  <2>2. \A s \in Slots, p \in Nat : Decode!SlotMapping(s, p)' = Decode!SlotMapping(s, p)
    BY DEF Decode!SlotMapping
  <2>. QED  BY <1>1, <2>1 DEF Decode!CacheHoldsContext, Decode!SlotMapping
<1>. QED  BY <1>3, <1>4, <1>5, <1>6 DEF SpeculationIInv

\* Every step of the speculation keeps its invariant.
LEMMA SpeculationKeeps == SpeculationIInv /\ [Decode!Next]_(Decode!vars) => SpeculationIInv'
<1>1. SpeculationIInv /\ UNCHANGED Decode!vars => SpeculationIInv'
  <2>. SUFFICES ASSUME SpeculationIInv, UNCHANGED Decode!vars PROVE SpeculationIInv'
    OBVIOUS
  <2>1. Decode!TypeOK' /\ WithinBlocks' /\ Decode!Lossless'
    BY DEF Decode!vars, SpeculationIInv, Decode!TypeOK, WithinBlocks, Decode!Lossless
  <2>2. Decode!CacheHoldsContext'
    BY DEF Decode!vars, SpeculationIInv, Decode!CacheHoldsContext, Decode!SlotMapping
  <2>. QED  BY <2>1, <2>2 DEF SpeculationIInv
<1>. QED  BY <1>1, CycleKeeps, ParkKeeps DEF Decode!Next

-----------------------------------------------------------------------------
(* The replay audit *)
\* What an execution may read.
States == [cache : [Pages -> Replay!Contents], metadata : [Tensors -> Replay!Contents]]

\* The metadata as the cycle prepares it, before any execution.
Fresh == [t \in Tensors |-> <<cycle, 0>>]

(* Until its output goes on, an audited cycle keeps the snapshot that it    *)
(* took before its first execution.                                        *)
SnapshotKept ==
  IF Replay!Audited /\ step \in {"execute", "synchronize", "executed", "restore", "verify"}
  THEN /\ targets.pages \subseteq DOMAIN snapshot /\ DOMAIN snapshot \subseteq Pages
       /\ run = 0 => /\ inflight = {} /\ saved = metadata
                     /\ \A p \in DOMAIN snapshot : snapshot[p] = pages[p]
       /\ run > 0 => /\ saved = reads[1].metadata
                     /\ \A p \in DOMAIN snapshot : snapshot[p] = reads[1].cache[p]
  ELSE step # "manifest rejected" => snapshot = Replay!Nothing /\ saved = Replay!Nothing

(* Whatever has been executed, all executions have read the same state, and *)
(* what the target does not write is still as they have read it.           *)
ReadsAgree ==
  /\ run = 0 => metadata = Fresh
  /\ run > 0 =>
       /\ \A i \in 1..run : reads[i] = reads[1]
       /\ reads[1].metadata = Fresh
       /\ \A p \in Pages \ targets.pages : pages[p] = reads[1].cache[p]
       /\ \A t \in Tensors \ targets.tensors : metadata[t] = Fresh[t]
       /\ \A w \in inflight : w.page \in targets.pages /\ w.content = <<cycle, run>>

(* Where the Host is in the cycle, and what it has left behind there.      *)
Progress ==
  /\ step \in {"observe", "manifest rejected"} => run = 0
  /\ step = "execute" => run < Replay!LastRun
  /\ step = "execute" /\ run > 0 => Replay!Audited
  /\ step \in {"synchronize", "executed", "advance"} =>
       /\ run \in 1..Replay!LastRun
       /\ \A p \in targets.pages :
            pages[p] = <<cycle, run>> \/ \E w \in inflight : w.page = p
       /\ \A t \in targets.tensors : metadata[t] = <<cycle, run>>
  /\ step \in {"restore", "verify"}
       => Replay!Audited /\ run \in 1..(Replay!LastRun - 1) /\ inflight = {}
  /\ step = "restore" => /\ restoring \subseteq DOMAIN snapshot
                         /\ \A p \in DOMAIN snapshot \ restoring : pages[p] = snapshot[p]
  /\ step = "verify" \/ (step = "execute" /\ run > 0) =>
       /\ \A p \in DOMAIN snapshot : pages[p] = snapshot[p]
       /\ metadata = saved /\ inflight = {}
  /\ step = "advance" => returned = run

\* The inductive invariant of the replay.
ReplayIInv == /\ Replay!TypeOK /\ reads \in Seq(States) /\ Replay!NeverFails
        /\ SnapshotKept /\ ReadsAgree /\ Progress

\* The invariant holds before the first cycle.
LEMMA ReplayInit == Replay!Init => ReplayIInv
<1>. SUFFICES ASSUME Replay!Init PROVE ReplayIInv
  OBVIOUS
<1>. USE ReplayAssumption DEF Replay!TargetReplayAssumption
<1>1. Replay!TypeOK /\ reads \in Seq(States)
  BY DEF Replay!Init, Replay!TypeOK, Replay!Contents, Replay!Executions, Replay!Nothing
<1>2. SnapshotKept /\ ReadsAgree /\ Progress /\ Replay!NeverFails
  BY DEF Replay!Init, SnapshotKept, ReadsAgree, Progress, Replay!NeverFails, Fresh,
         Replay!LastRun, Replay!Audited
<1>. QED  BY <1>1, <1>2 DEF ReplayIInv

\* A write that lands is one of the target's, whose pages no execution still compares.
LEMMA LandWriteKeeps ==
  ASSUME ReplayIInv, Replay!LandWrite, UNCHANGED parity PROVE ReplayIInv'
<1>1. PICK write \in inflight :
        /\ pages' = [pages EXCEPT ![write.page] = write.content]
        /\ inflight' = inflight \ {write}
        /\ UNCHANGED <<cycle, step, run, targets, metadata, Replay!pre, restoring, reads,
             returned>>
  BY DEF Replay!LandWrite
<1>2. Replay!TypeOK' /\ (reads \in Seq(States))'
  BY <1>1
     DEF ReplayIInv, Replay!TypeOK, States, Replay!Contents, Replay!Executions, Replay!pre
<1>3. SnapshotKept'
  BY <1>1 DEF ReplayIInv, Replay!TypeOK, SnapshotKept, Replay!Audited, Replay!pre, Progress
<1>4. ReadsAgree'
  BY <1>1 DEF ReplayIInv, Replay!TypeOK, ReadsAgree, Fresh
<1>5. Progress'
  <2>1. /\ step \notin {"restore", "verify"} /\ ~(step = "execute" /\ run > 0)
        /\ UNCHANGED <<cycle, step, run, targets, metadata, snapshot, saved, restoring,
                       returned, parity>>
    BY <1>1 DEF ReplayIInv, Progress, Replay!pre
  <2>2. ASSUME step \in {"synchronize", "executed", "advance"}, NEW p \in targets.pages
        PROVE  pages'[p] = <<cycle, run>> \/ \E w \in inflight' : w.page = p
    <3>1. run > 0 /\ p \in Pages
      <4>1. run \in 1..Replay!LastRun /\ Replay!LastRun \in Nat
        BY <2>2 DEF ReplayIInv, Progress, Replay!LastRun
      <4>2. targets \in [pages : SUBSET Pages, tensors : SUBSET Tensors]
        BY DEF ReplayIInv, Replay!TypeOK
      <4>. QED  BY <4>1, <4>2
    <3>2. write.page = p => pages'[p] = <<cycle, run>>
      BY <1>1, <3>1 DEF ReplayIInv, Replay!TypeOK, ReadsAgree
    <3>3. write.page # p => pages'[p] = pages[p]
      BY <1>1, <3>1 DEF ReplayIInv, Replay!TypeOK
    <3>4. pages[p] = <<cycle, run>> \/ \E w \in inflight : w.page = p
      BY <2>2 DEF ReplayIInv, Progress
    <3>5. ASSUME write.page # p, NEW w \in inflight, w.page = p
          PROVE  w \in inflight'
      BY <1>1, <3>5
    <3>. QED  BY <3>2, <3>3, <3>4, <3>5
  <2>3. Replay!LastRun' = Replay!LastRun /\ Replay!Audited' = Replay!Audited
    BY <2>1 DEF Replay!LastRun, Replay!Audited
  <2>4. step' \in {"synchronize", "executed", "advance"} => \A p \in targets'.pages :
           pages'[p] = <<cycle', run'>> \/ \E w \in inflight' : w.page = p
    BY <2>1, <2>2
  <2>. QED  BY <2>1, <2>3, <2>4 DEF ReplayIInv, Progress
<1>6. Replay!NeverFails'
  BY <1>1 DEF ReplayIInv, Replay!NeverFails
<1>. QED  BY <1>2, <1>3, <1>4, <1>5, <1>6 DEF ReplayIInv

\* A cycle that is not audited goes straight to its one execution.
LEMMA SkipAuditKeeps ==
  ASSUME ReplayIInv, Replay!SkipAudit, UNCHANGED parity PROVE ReplayIInv'
<1>1. Replay!TypeOK' /\ (reads \in Seq(States))'
  BY DEF ReplayIInv, Replay!TypeOK, States, Replay!Contents, Replay!Executions, Replay!pre,
         Replay!SkipAudit, Replay!TargetsWithin
<1>2. /\ run = 0
      /\ snapshot = Replay!Nothing
      /\ saved = Replay!Nothing
      /\ ~Replay!Audited
      /\ step = "observe"
  BY DEF ReplayIInv, Progress, SnapshotKept, Replay!SkipAudit
<1>3. SnapshotKept' /\ Replay!NeverFails'
  BY <1>2 DEF Replay!SkipAudit, SnapshotKept, Replay!Audited, Replay!pre, Replay!NeverFails
<1>4. ReadsAgree'
  BY <1>2 DEF Replay!SkipAudit, ReplayIInv, ReadsAgree, Fresh
<1>5. Progress'
  BY <1>2 DEF Replay!SkipAudit, Progress, Replay!Audited, Replay!LastRun
<1>. QED  BY <1>1, <1>3, <1>4, <1>5 DEF ReplayIInv

\* The snapshot is of the pages as the first execution will read them.
LEMMA CaptureKeeps ==
  ASSUME ReplayIInv, UNCHANGED parity, NEW manifest \in SUBSET Pages,
           Replay!Capture(manifest \cup Mutable)
  PROVE  ReplayIInv'
<1>. DEFINE candidates == manifest \cup Mutable
<1>. USE ReplayAssumption DEF Replay!TargetReplayAssumption
<1>1. /\ run = 0
      /\ snapshot = Replay!Nothing
      /\ saved = Replay!Nothing
      /\ Replay!Audited
      /\ step = "observe"
  BY DEF ReplayIInv, Progress, SnapshotKept, Replay!Capture
<1>2. /\ step' = "execute" /\ snapshot' = [p \in candidates |-> pages[p]]
      /\ saved' = metadata /\ inflight = {} /\ candidates \subseteq Pages
      /\ targets'.pages \subseteq candidates /\ targets'.tensors \subseteq Tensors
      /\ targets' \in [pages : SUBSET Pages, tensors : SUBSET Tensors]
      /\ UNCHANGED <<cycle, run, pages, inflight, metadata, restoring, reads, returned>>
  BY <1>1 DEF Replay!Capture, Replay!TakeSnapshot, Replay!Synchronize, Replay!TargetsWithin
<1>. HIDE DEF candidates
<1>3. Replay!TypeOK' /\ (reads \in Seq(States))'
  <2>1. snapshot' \in [DOMAIN snapshot' -> Replay!Contents']
    BY <1>2 DEF ReplayIInv, Replay!TypeOK, Replay!Contents, Replay!Executions
  <2>. QED  BY <1>2, <2>1
               DEF ReplayIInv, Replay!TypeOK, States, Replay!Contents, Replay!Executions
<1>4. SnapshotKept' /\ Replay!NeverFails'
  BY <1>1, <1>2
     DEF SnapshotKept, Replay!Audited, Replay!NeverFails, ReplayIInv, Replay!TypeOK
<1>5. ReadsAgree'
  BY <1>1, <1>2 DEF ReplayIInv, ReadsAgree, Fresh
<1>6. Progress'
  BY <1>1, <1>2 DEF Progress, Replay!Audited, Replay!LastRun
<1>. QED  BY <1>3, <1>4, <1>5, <1>6 DEF ReplayIInv

\* A rejected manifest leaves no snapshot and stops the audit.
LEMMA RejectManifestKeeps ==
  ASSUME ReplayIInv, Replay!RejectManifest, UNCHANGED parity PROVE ReplayIInv'
<1>1. Replay!TypeOK' /\ (reads \in Seq(States))'
  BY DEF ReplayIInv, Replay!TypeOK, States, Replay!Contents, Replay!Executions, Replay!pre,
         Replay!RejectManifest
<1>2. run = 0 /\ snapshot = Replay!Nothing /\ saved = Replay!Nothing
  BY DEF ReplayIInv, Progress, SnapshotKept, Replay!RejectManifest
<1>3. SnapshotKept' /\ Replay!NeverFails' /\ ReadsAgree' /\ Progress'
  BY <1>2
     DEF Replay!RejectManifest, SnapshotKept, Replay!Audited, Replay!pre, Replay!NeverFails,
         ReplayIInv, ReadsAgree, Fresh, Progress, Replay!LastRun
<1>. QED  BY <1>1, <1>3 DEF ReplayIInv

\* Synchronizing waits until the writes of the execution have landed.
LEMMA SynchronizeExecutionKeeps ==
  ASSUME ReplayIInv, Replay!SynchronizeExecution, UNCHANGED parity PROVE ReplayIInv'
<1>1. Replay!TypeOK' /\ (reads \in Seq(States))'
  BY DEF ReplayIInv, Replay!TypeOK, States, Replay!Contents, Replay!Executions, Replay!pre,
         Replay!SynchronizeExecution
<1>2. SnapshotKept' /\ Replay!NeverFails' /\ ReadsAgree'
  BY DEF Replay!SynchronizeExecution, SnapshotKept, Replay!Audited, Replay!pre,
         Replay!NeverFails, ReplayIInv, ReadsAgree, Fresh
<1>3. Progress'
  BY DEF Replay!SynchronizeExecution, Replay!Audited, Replay!pre, ReplayIInv, Progress,
         Replay!LastRun
<1>. QED  BY <1>1, <1>2, <1>3 DEF ReplayIInv

\* A restoration begins with all rows of the snapshot, and none in flight.
LEMMA BeginRestoreKeeps ==
  ASSUME ReplayIInv, Replay!BeginRestore, UNCHANGED parity PROVE ReplayIInv'
<1>1. /\ Replay!Audited
      /\ run \in 1..(Replay!LastRun - 1)
      /\ inflight = {}
      /\ DOMAIN snapshot \subseteq Pages
  BY DEF Replay!BeginRestore, ReplayIInv, Replay!TypeOK, Progress, Replay!Synchronize,
         Replay!LastRun, SnapshotKept
<1>2. Replay!TypeOK' /\ (reads \in Seq(States))'
  BY <1>1
     DEF ReplayIInv, Replay!TypeOK, States, Replay!Contents, Replay!Executions, Replay!pre,
         Replay!BeginRestore
<1>3. SnapshotKept' /\ Replay!NeverFails' /\ ReadsAgree'
  BY <1>1
     DEF Replay!BeginRestore, SnapshotKept, Replay!Audited, Replay!pre, Replay!NeverFails,
         ReplayIInv, ReadsAgree, Fresh
<1>4. Progress'
  BY <1>1
     DEF Replay!BeginRestore, Replay!Audited, Replay!pre, ReplayIInv, Progress,
         Replay!LastRun
<1>. QED  BY <1>2, <1>3, <1>4 DEF ReplayIInv

(* A restored row had been written by the executions only if the target    *)
(* writes it; what the others have read is restored to itself.             *)
LEMMA RestoreRowKeeps ==
  ASSUME ReplayIInv, Replay!RestoreRow, UNCHANGED parity PROVE ReplayIInv'
<1>1. PICK p \in restoring : /\ pages' = [pages EXCEPT ![p] = snapshot[p]]
                             /\ restoring' = restoring \ {p}
  BY DEF Replay!RestoreRow
<1>2. /\ step = "restore" /\ p \in Pages /\ p \in DOMAIN snapshot /\ inflight = {}
      /\ Replay!Audited /\ run \in 1..(Replay!LastRun - 1) /\ run > 0
      /\ UNCHANGED <<cycle, step, run, targets, inflight, metadata, snapshot, saved, reads,
           returned>>
  BY <1>1 DEF Replay!RestoreRow, ReplayIInv, Replay!TypeOK, Progress, Replay!pre
<1>3. /\ \A q \in DOMAIN snapshot : snapshot[q] = reads[1].cache[q]
      /\ DOMAIN snapshot \subseteq Pages /\ snapshot \in [DOMAIN snapshot -> Replay!Contents]
  BY <1>2 DEF ReplayIInv, SnapshotKept, Replay!TypeOK, Replay!Nothing
<1>4. /\ pages'[p] = snapshot[p] /\ snapshot[p] \in Replay!Contents
      /\ \A q \in Pages \ {p} : pages'[q] = pages[q]
      /\ pages' \in [Pages -> Replay!Contents]
  BY <1>1, <1>2, <1>3 DEF ReplayIInv, Replay!TypeOK
<1>5. Replay!TypeOK' /\ (reads \in Seq(States))'
  BY <1>1, <1>2, <1>4
     DEF ReplayIInv, Replay!TypeOK, States, Replay!Contents, Replay!Executions
<1>6. SnapshotKept' /\ Replay!NeverFails'
  BY <1>2 DEF ReplayIInv, SnapshotKept, Replay!NeverFails, Replay!Audited
<1>7. ReadsAgree'
  BY <1>2, <1>3, <1>4 DEF ReplayIInv, ReadsAgree, Fresh
<1>8. Progress'
  <2>1. Replay!LastRun' = Replay!LastRun /\ Replay!Audited' = Replay!Audited
    BY <1>2 DEF Replay!LastRun, Replay!Audited
  <2>2. \A q \in DOMAIN snapshot' \ restoring' : pages'[q] = snapshot'[q]
    BY <1>1, <1>2, <1>3, <1>4 DEF ReplayIInv, Progress
  <2>. QED  BY <1>1, <1>2, <2>1, <2>2 DEF ReplayIInv, Progress
<1>. QED  BY <1>5, <1>6, <1>7, <1>8 DEF ReplayIInv

\* The metadata is restored after the rows.
LEMMA RestoreMetadataKeeps ==
  ASSUME ReplayIInv, Replay!RestoreMetadata, UNCHANGED parity PROVE ReplayIInv'
<1>1. /\ step = "restore" /\ step' = "verify" /\ restoring = {} /\ inflight = {}
      /\ Replay!Audited /\ run \in 1..(Replay!LastRun - 1) /\ run > 0 /\ metadata' = saved
      /\ UNCHANGED <<cycle, run, targets, pages, inflight, snapshot, saved, restoring,
           reads, returned>>
  BY DEF Replay!RestoreMetadata, ReplayIInv, Progress, Replay!pre
<1>2. /\ saved = reads[1].metadata
      /\ reads[1].metadata = Fresh
      /\ Fresh \in [Tensors -> Replay!Contents]
  BY <1>1, ReplayAssumption
     DEF Replay!TargetReplayAssumption, ReplayIInv, SnapshotKept, ReadsAgree, Fresh,
         Replay!TypeOK, Replay!Contents, Replay!Executions
<1>3. Replay!TypeOK' /\ (reads \in Seq(States))'
  BY <1>1, <1>2 DEF ReplayIInv, Replay!TypeOK, States, Replay!Contents, Replay!Executions
<1>4. SnapshotKept' /\ Replay!NeverFails'
  BY <1>1 DEF ReplayIInv, SnapshotKept, Replay!NeverFails, Replay!Audited
<1>5. ReadsAgree'
  BY <1>1, <1>2 DEF ReplayIInv, ReadsAgree, Fresh
<1>6. Progress'
  BY <1>1 DEF ReplayIInv, Progress, Replay!LastRun, Replay!Audited
<1>. QED  BY <1>3, <1>4, <1>5, <1>6 DEF ReplayIInv

\* The verification finds what has been restored, so it raises nothing.
LEMMA VerifyRestoredKeeps ==
  ASSUME ReplayIInv, Replay!VerifyRestored, UNCHANGED parity PROVE ReplayIInv'
<1>1. /\ step = "verify" /\ step' = "execute" /\ inflight = {}
      /\ Replay!Audited /\ run \in 1..(Replay!LastRun - 1) /\ run > 0
      /\ UNCHANGED <<cycle, run, targets, pages, inflight, metadata, snapshot, saved, restoring,
                     reads, returned>>
  <2>1. /\ step = "verify" /\ inflight = {}
        /\ Replay!Audited /\ run \in 1..(Replay!LastRun - 1) /\ Replay!LastRun \in Nat
        /\ \A p \in DOMAIN snapshot : pages[p] = snapshot[p]
        /\ metadata = saved
    BY DEF Replay!VerifyRestored, ReplayIInv, Progress, Replay!LastRun
  <2>2. run > 0
    BY <2>1
  <2>. QED  BY <2>1, <2>2 DEF Replay!VerifyRestored, Replay!pre
<1>2. Replay!TypeOK' /\ (reads \in Seq(States))'
  BY <1>1 DEF ReplayIInv, Replay!TypeOK, States, Replay!Contents, Replay!Executions
<1>3. SnapshotKept' /\ Replay!NeverFails' /\ ReadsAgree'
  BY <1>1 DEF ReplayIInv, SnapshotKept, Replay!NeverFails, Replay!Audited, ReadsAgree, Fresh
<1>4. Progress'
  BY <1>1 DEF ReplayIInv, Progress, Replay!LastRun, Replay!Audited, Replay!TypeOK
<1>. QED  BY <1>2, <1>3, <1>4 DEF ReplayIInv

\* The cycle goes on with the output of its last execution.
LEMMA ReturnLastKeeps ==
  ASSUME ReplayIInv, Replay!ReturnLast, UNCHANGED parity PROVE ReplayIInv'
<1>1. /\ step = "executed" /\ step' = "advance" /\ run = Replay!LastRun /\ returned' = run
      /\ snapshot' = Replay!Nothing /\ saved' = Replay!Nothing
      /\ UNCHANGED <<cycle, run, targets, pages, inflight, metadata, restoring, reads>>
  BY DEF Replay!ReturnLast
<1>2. Replay!TypeOK' /\ (reads \in Seq(States))'
  BY <1>1 DEF ReplayIInv, Replay!TypeOK, States, Replay!Contents, Replay!Executions
<1>3. SnapshotKept' /\ Replay!NeverFails' /\ ReadsAgree'
  BY <1>1 DEF ReplayIInv, SnapshotKept, Replay!NeverFails, Replay!Audited, ReadsAgree, Fresh
<1>4. Progress'
  BY <1>1 DEF ReplayIInv, Progress, Replay!LastRun, Replay!Audited
<1>. QED  BY <1>2, <1>3, <1>4 DEF ReplayIInv

\* The next cycle has fresh metadata, targets of its own and no snapshot.
LEMMA NextCycleKeeps ==
  ASSUME ReplayIInv, Replay!NextCycle, UNCHANGED parity PROVE ReplayIInv'
<1>. USE ReplayAssumption DEF Replay!TargetReplayAssumption
<1>1. /\ step = "advance" /\ step' = "observe" /\ cycle < MaxCycle
      /\ cycle' = cycle + 1 /\ run' = 0 /\ reads' = <<>>
      /\ metadata' = [t \in Tensors |-> <<cycle + 1, 0>>]
      /\ snapshot = Replay!Nothing /\ saved = Replay!Nothing
      /\ UNCHANGED <<targets, pages, inflight, snapshot, saved, restoring, returned>>
  BY DEF Replay!NextCycle, ReplayIInv, SnapshotKept, Replay!pre
<1>2. Replay!TypeOK' /\ (reads \in Seq(States))'
  <2>1. /\ cycle' \in 1..MaxCycle
        /\ run' \in Replay!Executions'
        /\ Replay!Executions' = Replay!Executions
        /\ Replay!Contents' = Replay!Contents
    BY <1>1 DEF ReplayIInv, Replay!TypeOK, Replay!Contents, Replay!Executions
  <2>2. <<cycle + 1, 0>> \in Replay!Contents
    BY <1>1, <2>1 DEF ReplayIInv, Replay!TypeOK, Replay!Contents, Replay!Executions
  <2>3. metadata' \in [Tensors -> Replay!Contents]
    BY <1>1, <2>2
  <2>4. reads' \in Seq(States') /\ Len(reads') = run'
    BY <1>1
  <2>. QED  BY <1>1, <2>1, <2>3, <2>4 DEF ReplayIInv, Replay!TypeOK
<1>3. SnapshotKept' /\ Replay!NeverFails' /\ ReadsAgree'
  BY <1>1 DEF ReplayIInv, SnapshotKept, Replay!NeverFails, Replay!Audited, ReadsAgree, Fresh
<1>4. Progress'
  BY <1>1 DEF ReplayIInv, Progress, Replay!LastRun, Replay!Audited
<1>. QED  BY <1>2, <1>3, <1>4 DEF ReplayIInv

(* What an execution reads is what the first one has read: at the first    *)
(* there is nothing to compare, at a later one the pre-state is restored.  *)
LEMMA ExecuteTargetKeeps ==
  ASSUME ReplayIInv, Replay!ExecuteTarget, UNCHANGED parity PROVE ReplayIInv'
<1>. DEFINE state == [cache |-> pages, metadata |-> metadata]
<1>1. PICK late \in SUBSET targets.pages :
        /\ pages' = [p \in Pages |-> IF p \in targets.pages \ late THEN Replay!Content
               ELSE pages[p]]
        /\ inflight' = [page : late, content : {Replay!Content}]
  BY DEF Replay!ExecuteTarget
<1>2. /\ step = "execute" /\ step' \in {"synchronize", "executed"} /\ inflight = {}
      /\ run' = run + 1 /\ run < Replay!LastRun /\ reads' = Append(reads, state)
      /\ (Replay!Audited \/ run = 0)
      /\ metadata' = [t \in Tensors |-> IF t \in targets.tensors THEN Replay!Content
             ELSE metadata[t]]
      /\ UNCHANGED <<cycle, targets, snapshot, saved, restoring, returned>>
  BY DEF Replay!ExecuteTarget, ReplayIInv, Progress, Replay!pre, Replay!TypeOK,
         Replay!Executions
<1>3. /\ Replay!Content \in Replay!Contents
      /\ run + 1 \in Replay!Executions
      /\ run \in Nat
      /\ Replay!LastRun \in Nat
      /\ Replay!LastRun'
           = Replay!LastRun /\ (Replay!Audited <=> Replay!Audited') /\ Replay!Content
             = <<cycle', run'>>
  BY <1>2, ReplayAssumption
     DEF Replay!Content, Replay!Contents, Replay!Executions, Replay!LastRun, ReplayIInv,
         Replay!TypeOK, Replay!Audited, Replay!TargetReplayAssumption
<1>4. state \in States
  BY DEF ReplayIInv, Replay!TypeOK, States
<1>5. /\ reads \in Seq(States) /\ Len(reads) = run
      /\ reads' \in Seq(States) /\ Len(reads') = run + 1
      /\ \A i \in 1..run : reads'[i] = reads[i]
      /\ reads'[run + 1] = state
  BY <1>2, <1>4 DEF ReplayIInv, Replay!TypeOK
<1>. HIDE DEF state
<1>6. run > 0 => state = reads[1]
  <2>. SUFFICES ASSUME run > 0 PROVE state = reads[1]
    OBVIOUS
  <2>1. /\ Replay!Audited /\ metadata = saved /\ saved = reads[1].metadata
        /\ targets.pages \subseteq DOMAIN snapshot
        /\ \A p \in DOMAIN snapshot : pages[p] = snapshot[p] /\ snapshot[p] = reads[1].cache[p]
        /\ \A p \in Pages \ targets.pages : pages[p] = reads[1].cache[p]
    BY <1>2 DEF ReplayIInv, Progress, SnapshotKept, ReadsAgree
  <2>2. reads[1] \in States
    BY <1>3, <1>5
  <2>3. reads[1].cache \in [Pages -> Replay!Contents] /\ pages \in [Pages -> Replay!Contents]
    BY <2>2 DEF ReplayIInv, Replay!TypeOK, States
  <2>4. \A p \in Pages : pages[p] = reads[1].cache[p]
    BY <2>1
  <2>5. pages = reads[1].cache
    BY <2>3, <2>4
  <2>6. reads[1] = [cache |-> reads[1].cache, metadata |-> reads[1].metadata]
    BY <2>2 DEF States
  <2>. QED  BY <2>1, <2>5, <2>6 DEF state
<1>7. reads'[1] = state /\ \A i \in 1..run' : reads'[i] = state
  <2>1. CASE run = 0
    BY <2>1, <1>2, <1>5
  <2>2. CASE run > 0
    <3>1. \A i \in 1..run : reads[i] = reads[1]
      BY <2>2 DEF ReplayIInv, ReadsAgree
    <3>. QED  BY <2>2, <3>1, <1>2, <1>3, <1>5, <1>6
  <2>. QED  BY <2>1, <2>2, <1>3
<1>8. /\ pages' \in [Pages -> Replay!Contents] /\ metadata' \in [Tensors -> Replay!Contents]
      /\ inflight' \subseteq [page : Pages, content : Replay!Contents]
      /\ \A w, x \in inflight' : w.page = x.page => w = x
      /\ \A w \in inflight' : w.page \in targets.pages /\ w.content = Replay!Content
      /\ targets.pages \subseteq Pages
  <2>1. /\ pages \in [Pages -> Replay!Contents] /\ metadata \in [Tensors -> Replay!Contents]
        /\ targets.pages \subseteq Pages
    BY DEF ReplayIInv, Replay!TypeOK
  <2>2. pages' \in [Pages -> Replay!Contents] /\ metadata' \in [Tensors -> Replay!Contents]
    BY <1>1, <1>2, <1>3, <2>1
  <2>3. \A w \in inflight' : /\ w = [page |-> w.page, content |-> w.content]
                              /\ w.page \in targets.pages /\ w.content = Replay!Content
    BY <1>1
  <2>. QED  BY <1>3, <2>1, <2>2, <2>3
<1>9. Replay!TypeOK' /\ (reads \in Seq(States))'
  <2>1. Replay!Contents' = Replay!Contents /\ Replay!Executions' = Replay!Executions
    BY DEF Replay!Contents, Replay!Executions
  <2>. QED  BY <1>2, <1>3, <1>5, <1>8, <2>1 DEF ReplayIInv, Replay!TypeOK, States
<1>10. SnapshotKept' /\ Replay!NeverFails'
  <2>1. state.cache = pages /\ state.metadata = metadata
    BY DEF state
  <2>2. run' > 0 /\ ~(run' = 0) /\ (Replay!Audited <=> Replay!Audited')
    BY <1>2, <1>3
  <2>3. CASE ~Replay!Audited
    BY <1>2, <2>2, <2>3 DEF ReplayIInv, SnapshotKept, Replay!NeverFails
  <2>4. CASE Replay!Audited /\ run = 0
    BY <1>2, <1>7, <2>1, <2>2, <2>4 DEF ReplayIInv, SnapshotKept, Replay!NeverFails
  <2>5. CASE Replay!Audited /\ run > 0
    BY <1>2, <1>6, <1>7, <2>1, <2>2, <2>5 DEF ReplayIInv, SnapshotKept, Replay!NeverFails
  <2>. QED  BY <1>3, <2>3, <2>4, <2>5
<1>11. ReadsAgree'
  <2>1. state.cache = pages /\ state.metadata = metadata
    BY DEF state
  <2>2. metadata \in [Tensors -> Replay!Contents] /\ Fresh' = Fresh
    BY <1>2 DEF ReplayIInv, Replay!TypeOK, Fresh
  <2>3. state.metadata = Fresh
    BY <1>3, <1>6, <2>1 DEF ReplayIInv, ReadsAgree
  <2>4. \A p \in Pages \ targets.pages : pages'[p] = state.cache[p]
    BY <1>1, <2>1
  <2>5. \A t \in Tensors \ targets.tensors : metadata'[t] = Fresh[t]
    BY <1>2, <2>1, <2>3
  <2>6. \A w \in inflight' : w.page \in targets'.pages /\ w.content = <<cycle', run'>>
    BY <1>2, <1>3, <1>8
  <2>7. ~(run' = 0) /\ \A i \in 1..run' : reads'[i] = reads'[1]
    <3>1. ~(run' = 0)
      BY <1>2, <1>3
    <3>. QED  BY <3>1, <1>7
  <2>8. reads'[1].metadata = Fresh'
    BY <1>7, <2>2, <2>3
  <2>. QED  BY <1>2, <1>7, <2>2, <2>4, <2>5, <2>6, <2>7, <2>8 DEF ReadsAgree
<1>12. Progress'
  <2>1. ASSUME NEW p \in targets.pages
        PROVE  pages'[p] = Replay!Content \/ \E w \in inflight' : w.page = p
    <3>1. CASE p \in late
      <4>1. [page |-> p, content |-> Replay!Content] \in inflight'
        BY <3>1, <1>1
      <4>. QED  BY <4>1
    <3>2. CASE p \notin late
      BY <3>2, <1>1, <1>8
    <3>. QED  BY <3>1, <3>2
  <2>2. \A t \in targets.tensors : metadata'[t] = Replay!Content
    BY <1>2 DEF ReplayIInv, Replay!TypeOK
  <2>3. run' \in 1..Replay!LastRun'
    BY <1>2, <1>3
  <2>. QED  BY <1>2, <1>3, <2>1, <2>2, <2>3 DEF Progress
<1>. QED  BY <1>9, <1>10, <1>11, <1>12 DEF ReplayIInv

\* Every step of the replay keeps its invariant.
LEMMA ReplayKeeps == ASSUME ReplayIInv, [Replay!Next]_(Replay!vars) PROVE ReplayIInv'
<1>1. CASE UNCHANGED Replay!vars
  <2>1. Replay!TypeOK' /\ (reads \in Seq(States))' /\ Replay!NeverFails'
    BY <1>1
       DEF Replay!vars, Replay!pre, ReplayIInv, Replay!TypeOK, States, Replay!Contents,
           Replay!Executions, Replay!NeverFails
  <2>2. SnapshotKept' /\ ReadsAgree' /\ Progress'
    BY <1>1
       DEF Replay!vars, Replay!pre, ReplayIInv, SnapshotKept, ReadsAgree, Progress, Fresh,
           Replay!Audited, Replay!LastRun
  <2>. QED  BY <2>1, <2>2 DEF ReplayIInv
<1>2. CASE Replay!Next
  BY <1>2, LandWriteKeeps, SkipAuditKeeps, CaptureKeeps, RejectManifestKeeps,
     ExecuteTargetKeeps, SynchronizeExecutionKeeps, BeginRestoreKeeps, RestoreRowKeeps,
     RestoreMetadataKeeps, VerifyRestoredKeeps, ReturnLastKeeps, NextCycleKeeps
     DEF Replay!Next
<1>. QED  BY <1>1, <1>2

\* Executions that are compared have read the same, and nothing is raised.
LEMMA AgreementFollows == ReplayIInv => Replay!LikeWithLike /\ Replay!NeverFails
<1>. SUFFICES ASSUME ReplayIInv PROVE Replay!LikeWithLike
  BY DEF ReplayIInv
<1>1. reads \in Seq(States) /\ Len(reads) = run /\ run \in Nat
  <2>1. run \in Replay!Executions /\ Len(reads) = run
    BY DEF ReplayIInv, Replay!TypeOK
  <2>. QED  BY <2>1 DEF ReplayIInv, Replay!Executions
<1>2. DOMAIN reads = 1..run
  BY <1>1
<1>3. run > 0 => \A i \in 1..run : reads[i] = reads[1]
  BY DEF ReplayIInv, ReadsAgree
<1>. QED  BY <1>1, <1>2, <1>3 DEF Replay!LikeWithLike

\* After the last execution pages and metadata are those of one execution.
LEMMA OneExecutionFollows == ReplayIInv => Replay!LeavesOneExecution
<1>. SUFFICES ASSUME ReplayIInv, step = "advance" PROVE
       /\ \A p \in Pages :
            Replay!Landed(p) = IF p \in targets.pages THEN <<cycle, returned>>
                ELSE reads[1].cache[p]
       /\ \A t \in Tensors :
            metadata[t] = IF t \in targets.tensors THEN <<cycle, returned>> ELSE <<cycle, 0>>
  BY DEF Replay!LeavesOneExecution
<1>1. run > 0 /\ returned = run
  BY DEF ReplayIInv, Progress, Replay!TypeOK, Replay!Executions
<1>2. ASSUME NEW p \in Pages
      PROVE  Replay!Landed(p) = IF p \in targets.pages THEN <<cycle, returned>>
                 ELSE reads[1].cache[p]
  <2>1. CASE \E w \in inflight : w.page = p
    <3>1. PICK w \in inflight : w.page = p
      BY <2>1
    <3>2. (CHOOSE x \in inflight : x.page = p).content = w.content
      BY <3>1 DEF ReplayIInv, Replay!TypeOK
    <3>3. p \in targets.pages /\ w.content = <<cycle, run>>
      BY <1>1, <3>1 DEF ReplayIInv, ReadsAgree
    <3>. QED  BY <1>1, <2>1, <3>2, <3>3 DEF Replay!Landed
  <2>2. CASE ~\E w \in inflight : w.page = p
    <3>1. Replay!Landed(p) = pages[p]
      BY <2>2 DEF Replay!Landed
    <3>2. CASE p \in targets.pages
      BY <1>1, <2>2, <3>1, <3>2 DEF ReplayIInv, Progress
    <3>3. CASE p \notin targets.pages
      BY <1>1, <3>1, <3>3 DEF ReplayIInv, ReadsAgree
    <3>. QED  BY <3>2, <3>3
  <2>. QED  BY <2>1, <2>2
<1>3. ASSUME NEW t \in Tensors
      PROVE  metadata[t] = IF t \in targets.tensors THEN <<cycle, returned>> ELSE <<cycle, 0>>
  BY <1>1 DEF ReplayIInv, Progress, ReadsAgree, Fresh
<1>. QED  BY <1>2, <1>3

-----------------------------------------------------------------------------
(* The target's metadata *)
\* A quotient is the multiple that leaves a remainder.
LEMMA DivideUnique ==
  ASSUME NEW t \in Nat, NEW W \in Nat \ {0}, NEW r \in Nat, t - r * W \in 0..(W - 1)
  PROVE  r = t \div W
OBVIOUS

\* What the constants are.
LEMMA MetadataConstants ==
  /\ BatchSize \in Nat \ {0} /\ Width \in Nat \ {0} /\ ManagerSize \in Nat \ {0}
  /\ TpSizes \subseteq Nat \ {0} /\ MaxComputed \in Nat
  /\ Metadata!Groups \subseteq Nat /\ \A g \in Metadata!Groups : GroupRatios[g] \in Nat \ {0}
  /\ \A r \in Metadata!Requests :
       0..((MaxComputed + Width - 1) \div ManagerSize) \subseteq DOMAIN ManagerTable[r]
BY MetadataAssumption DEF Metadata!TargetMetadataAssumption, Metadata!Groups

\* Clamping to a slice keeps the order with its positions.
LEMMA ClampWithin ==
  ASSUME NEW n \in Nat, NEW low \in Nat, NEW high \in Nat, low <= high
  PROVE  /\ Metadata!Clamp(n, low, high) \in low..high
         /\ \A m \in low..(high - 1) : Metadata!Clamp(n, low, high) <= m <=> n <= m
BY DEF Metadata!Clamp

(* The product of two naturals is a natural; no other use of non-linear arithmetic *)
LEMMA Products ==
  ASSUME NEW a \in Nat, NEW b \in Nat
  PROVE  a * b \in Nat /\ (a + 1) * b = a * b + b /\ (b > 0 => a <= a * b)
<1>1. a * b \in Nat /\ (a + 1) * b = a * b + b
  OBVIOUS
<1>2. b > 0 => a <= a * b
  OBVIOUS
<1>. QED BY <1>1, <1>2

\* The slices: whatever the number of ranks, together they cover all tokens.
LEMMA SliceTypes ==
  ASSUME tpSize \in TpSizes
  PROVE  /\ BatchSize * Width \in Nat \ {0} /\ Metadata!TokensPerRank \in Nat \ {0}
         /\ BatchSize * Width <= tpSize * Metadata!TokensPerRank
         /\ \A k \in Nat : Metadata!LocalStart(k) \in Nat /\ Metadata!LocalEnd(k) \in Nat
             /\ Metadata!LocalStart(k) < Metadata!LocalEnd(k) /\ Metadata!LocalEnd(k) = Metadata!LocalStart(k) + Metadata!TokensPerRank
         /\ \A r \in Nat : Metadata!QueryStart(r) \in Nat
                               /\ Metadata!QueryStart(r + 1) = Metadata!QueryStart(r) + Width
<1>. USE MetadataConstants
<1>1. BatchSize * Width \in Nat \ {0}
  <2>1. BatchSize <= BatchSize * Width /\ BatchSize * Width \in Nat
    BY Products
  <2>. QED BY <2>1
<1>2. /\ Metadata!TokensPerRank \in Nat \ {0}
      /\ BatchSize * Width <= tpSize * Metadata!TokensPerRank
  <2>. DEFINE N == BatchSize * Width
  <2>1. N \in Nat \ {0}
    BY <1>1
  <2>. HIDE DEF N
  <2>2. tpSize \in Nat \ {0}
    OBVIOUS
  <2>3. (N + tpSize - 1) \div tpSize \in Nat /\ (N + tpSize - 1) % tpSize \in 0..(tpSize - 1)
        /\ (N + tpSize - 1)
             = tpSize * ((N + tpSize - 1) \div tpSize) + ((N + tpSize - 1) % tpSize)
    BY <2>1, <2>2
  <2>. DEFINE q == (N + tpSize - 1) \div tpSize
  <2>4. N <= tpSize * q
    BY <2>1, <2>2, <2>3
  <2>5. q # 0
    BY <2>1, <2>2, <2>3
  <2>. QED BY <2>3, <2>4, <2>5 DEF Metadata!TokensPerRank, N
<1>3. ASSUME NEW k \in Nat PROVE Metadata!LocalStart(k) \in Nat
  BY <1>2, Products DEF Metadata!LocalStart
<1>4. ASSUME NEW r \in Nat
      PROVE  Metadata!QueryStart(r) \in Nat
                 /\ Metadata!QueryStart(r + 1) = Metadata!QueryStart(r) + Width
  BY Products DEF Metadata!QueryStart
<1>. QED BY <1>1, <1>2, <1>3, <1>4 DEF Metadata!LocalEnd

\* The running sum of the lengths of a slice, in closed form: it telescopes.
LEMMA RunningSum ==
  ASSUME tpSize \in TpSizes, NEW k \in Nat
  PROVE  Metadata!LocalQueryStart(k)
           = [r \in 0..BatchSize |-> Metadata!LocalBegin(k, r) - Metadata!LocalStart(k)]
<1>. USE MetadataConstants
<1>. DEFINE Step(f) == [r \in 0..BatchSize |-> IF r = 0 THEN 0
         ELSE f[r - 1] + Metadata!LocalLength(k, r - 1)]
            closed == [r \in 0..BatchSize |-> Metadata!LocalBegin(k,
              r) - Metadata!LocalStart(k)]
            sums == Metadata!LocalQueryStart(k)
<1>1. ASSUME NEW r \in Nat PROVE Metadata!LocalBegin(k, r) \in Nat
  <2>1. /\ Metadata!QueryStart(r) \in Nat
        /\ Metadata!LocalStart(k) \in Nat
        /\ Metadata!LocalEnd(k) \in Nat
        /\ Metadata!LocalStart(k) <= Metadata!LocalEnd(k)
    BY SliceTypes
  <2>2. Metadata!Clamp(Metadata!QueryStart(r), Metadata!LocalStart(k),
          Metadata!LocalEnd(k)) \in Metadata!LocalStart(k)..Metadata!LocalEnd(k)
    BY <2>1, ClampWithin
  <2>. QED BY <2>1, <2>2 DEF Metadata!LocalBegin
<1>2. ASSUME NEW r \in Nat \ {0}
      PROVE  Metadata!LocalLength(k, r - 1) = Metadata!LocalBegin(k, r) - Metadata!LocalBegin(k, r - 1)
  <2>1. (r - 1) + 1 = r
    OBVIOUS
  <2>. QED BY <2>1 DEF Metadata!LocalLength, Metadata!LocalStop, Metadata!LocalBegin
<1>3. Metadata!LocalBegin(k, 0) = Metadata!LocalStart(k)
  <2>1. Metadata!QueryStart(0) = 0
    BY DEF Metadata!QueryStart
  <2>2. /\ Metadata!LocalStart(k) \in Nat
        /\ Metadata!LocalEnd(k) \in Nat
        /\ Metadata!LocalStart(k) < Metadata!LocalEnd(k)
    BY SliceTypes
  <2>. QED BY <2>1, <2>2 DEF Metadata!LocalBegin, Metadata!Clamp
<1>4. closed = Step(closed)
  <2>1. ASSUME NEW r \in 0..BatchSize PROVE closed[r] = Step(closed)[r]
    <3>1. CASE r = 0
      BY <3>1, <1>3, SliceTypes
    <3>2. CASE r # 0
      <4>1. r - 1 \in 0..BatchSize /\ r \in Nat \ {0} /\ r - 1 \in Nat
        BY <3>2
      <4>2. /\ Metadata!LocalBegin(k, r) \in Nat
            /\ Metadata!LocalBegin(k, r - 1) \in Nat
            /\ Metadata!LocalStart(k) \in Nat
        BY <4>1, <1>1, SliceTypes
      <4>3. closed[r - 1] = Metadata!LocalBegin(k, r - 1) - Metadata!LocalStart(k)
        BY <4>1
      <4>4. Step(closed)[r] = closed[r - 1] + Metadata!LocalLength(k, r - 1)
        BY <3>2
      <4>5. Metadata!LocalLength(k, r - 1)
              = Metadata!LocalBegin(k, r) - Metadata!LocalBegin(k, r - 1)
        BY <4>1, <1>2
      <4>. HIDE DEF closed
      <4>6. Step(closed)[r] = Metadata!LocalBegin(k, r) - Metadata!LocalStart(k)
        BY <4>2, <4>3, <4>4, <4>5
      <4>. QED BY <4>6 DEF closed
    <3>. QED BY <3>1, <3>2
  <2>. QED BY <2>1
<1>5. sums = Step(sums)
  <2>1. sums = CHOOSE f : f = Step(f)
    BY DEF Metadata!LocalQueryStart
  <2>. HIDE DEF Step, closed, sums
  <2>. QED BY <2>1, <1>4
<1>6. ASSUME NEW r \in 0..BatchSize PROVE sums[r] = closed[r]
  <2>. DEFINE Miss == {q \in 0..BatchSize : sums[q] # closed[q]}
  <2>1. SUFFICES ASSUME Miss # {} PROVE FALSE
    OBVIOUS
  <2>2. PICK q \in Miss : \A y \in Miss : q <= y
    <3>1. Miss \subseteq Nat
      OBVIOUS
    <3>. HIDE DEF Miss
    <3>. QED BY <2>1, <3>1, LeastElement
  <2>3. CASE q = 0
    <3>1. sums[0] = 0
      BY <1>5
    <3>2. closed[0] = 0
      BY <1>3, SliceTypes
    <3>. QED BY <2>3, <3>1, <3>2
  <2>4. CASE q # 0
    <3>1. q - 1 \in 0..BatchSize /\ q - 1 \notin Miss
      BY <2>2, <2>4
    <3>2. sums[q - 1] = closed[q - 1]
      BY <3>1
    <3>3. sums[q] = sums[q - 1] + Metadata!LocalLength(k, q - 1)
      BY <1>5, <2>4
    <3>4. closed[q] = closed[q - 1] + Metadata!LocalLength(k, q - 1)
      BY <1>4, <2>4
    <3>. QED BY <3>2, <3>3, <3>4
  <2>. QED BY <2>3, <2>4
<1>7. DOMAIN sums = 0..BatchSize
  BY <1>5
<1>8. sums = [r \in 0..BatchSize |-> sums[r]]
  BY <1>5
<1>. QED BY <1>6, <1>8

(* The tensors of update(), by the positions they are computed from.        *)
LEMMA MinOfRatios ==
  ASSUME NEW g \in Metadata!Groups
  PROVE  GroupRatios[Metadata!Min({h \in Metadata!Groups :
           GroupRatios[h] = GroupRatios[g]})] = GroupRatios[g]
<1>. DEFINE T == {h \in Metadata!Groups : GroupRatios[h] = GroupRatios[g]}
<1>1. T \subseteq Nat /\ T # {}
  BY MetadataConstants
<1>2. \E x \in T : \A y \in T : x <= y
  <2>. HIDE DEF T
  <2>. QED BY <1>1, LeastElement
<1>3. Metadata!Min(T) \in T
  BY <1>2 DEF Metadata!Min
<1>. QED BY <1>3

\* The length of a sequence after the pass.
LEMMA SeqLenTypes ==
  ASSUME computed \in [Metadata!Requests -> 0..MaxComputed], NEW r \in Metadata!Requests
  PROVE  Metadata!SeqLen(r) \in Nat /\ Metadata!SeqLen(r) <= MaxComputed + Width
             /\ Metadata!SeqLen(r) - Width = computed[r]
<1>1. computed[r] \in 0..MaxComputed /\ Width \in Nat /\ MaxComputed \in Nat
  BY MetadataConstants
<1>. QED BY <1>1 DEF Metadata!SeqLen

\* The part of a request that lies in a slice, by the order of its bounds with a token
\* of the slice.
LEMMA SliceOfRequest ==
  ASSUME tpSize \in TpSizes, NEW k \in Nat, NEW r \in Nat
  PROVE  /\ Metadata!LocalBegin(k, r) \in Metadata!LocalStart(k)..Metadata!LocalEnd(k)
         /\ Metadata!LocalStop(k, r) \in Metadata!LocalStart(k)..Metadata!LocalEnd(k)
         /\ Metadata!LocalBegin(k, r + 1) = Metadata!LocalStop(k, r)
         /\ Metadata!LocalBegin(k, r) <= Metadata!LocalStop(k, r)
         /\ Metadata!LocalStop(k,
              r) <= Metadata!QueryStart(r + 1) \/ Metadata!LocalLength(k, r) = 0
         /\ \A t \in Metadata!LocalStart(k)..(Metadata!LocalEnd(k) - 1) :
              /\ Metadata!LocalBegin(k, r) <= t <=> Metadata!QueryStart(r) <= t
              /\ Metadata!LocalStop(k, r) <= t <=> Metadata!QueryStart(r + 1) <= t
<1>1. /\ Metadata!QueryStart(r) \in Nat
      /\ Metadata!LocalStart(k) \in Nat
      /\ Metadata!LocalEnd(k) \in Nat
      /\ Metadata!LocalStart(k) < Metadata!LocalEnd(k)
      /\ Metadata!QueryStart(r + 1) = Metadata!QueryStart(r) + Width
      /\ Width \in Nat
  BY SliceTypes, MetadataConstants
<1>. QED BY <1>1
            DEF Metadata!LocalBegin, Metadata!LocalStop, Metadata!LocalLength,
                Metadata!Clamp

\* clamp_min(0).
LEMMA MaxOfTwo == ASSUME NEW a \in Int PROVE Metadata!Max({a, 0}) = IF a > 0 THEN a ELSE 0
<1>1. \E x \in {a, 0} : \A y \in {a, 0} : x >= y
  OBVIOUS
<1>2. Metadata!Max({a, 0}) \in {a, 0} /\ \A y \in {a, 0} : Metadata!Max({a, 0}) >= y
  BY <1>1 DEF Metadata!Max
<1>. QED BY <1>2

\* A request is never seen longer from a slice than it is.
LEMMA LocalSeqLenType ==
  ASSUME tpSize \in TpSizes, computed \in [Metadata!Requests -> 0..MaxComputed],
           NEW k \in Nat, NEW r \in Metadata!Requests
  PROVE  Metadata!LocalSeqLen(k, r) \in 0..(MaxComputed + Width)
<1>. DEFINE offset == Metadata!QueryStart(r + 1) - Metadata!LocalStop(k, r)
<1>0. r \in Nat
  BY MetadataConstants DEF Metadata!Requests
<1>1. /\ Metadata!LocalStart(k) \in Nat
      /\ Metadata!LocalEnd(k) \in Nat
      /\ Metadata!QueryStart(r + 1) \in Nat
      /\ Width \in Nat
      /\ MaxComputed \in Nat
  <2>1. /\ Metadata!QueryStart(r) \in Nat
        /\ Metadata!QueryStart(r + 1) = Metadata!QueryStart(r) + Width
        /\ Width \in Nat
    BY <1>0, SliceTypes, MetadataConstants
  <2>2. Metadata!LocalStart(k) \in Nat /\ Metadata!LocalEnd(k) \in Nat
    BY SliceTypes
  <2>. QED BY <2>1, <2>2, MetadataConstants
<1>2. /\ Metadata!LocalStop(k, r) \in Nat
      /\ Metadata!LocalBegin(k, r) \in Nat
      /\ (Metadata!LocalStop(k, r) <= Metadata!QueryStart(r + 1) \/ Metadata!LocalLength(k, r) = 0)
  <2>1. /\ Metadata!LocalBegin(k, r) \in Metadata!LocalStart(k)..Metadata!LocalEnd(k)
        /\ Metadata!LocalStop(k, r) \in Metadata!LocalStart(k)..Metadata!LocalEnd(k)
        /\ Metadata!LocalStop(k,
             r) <= Metadata!QueryStart(r + 1) \/ Metadata!LocalLength(k, r) = 0
    BY <1>0, SliceOfRequest
  <2>. QED BY <1>1, <2>1
<1>3. Metadata!SeqLen(r) \in Nat /\ Metadata!SeqLen(r) <= MaxComputed + Width
  BY SeqLenTypes
<1>4. CASE Metadata!LocalLength(k, r) > 0
  <2>1. offset \in Nat
    BY <1>1, <1>2, <1>4
  <2>2. Metadata!LocalSeqLen(k, r) = Metadata!Max({Metadata!SeqLen(r) - offset, 0})
    BY <1>4 DEF Metadata!LocalSeqLen
  <2>. HIDE DEF offset
  <2>3. Metadata!SeqLen(r) - offset \in Int
    BY <2>1, <1>3
  <2>4. Metadata!Max({Metadata!SeqLen(r) - offset, 0}) = IF Metadata!SeqLen(r) - offset > 0
            THEN Metadata!SeqLen(r) - offset ELSE 0
    BY <2>3, MaxOfTwo
  <2>. QED BY <2>1, <2>2, <2>4, <1>3, <1>1
<1>5. CASE ~(Metadata!LocalLength(k, r) > 0)
  BY <1>5, <1>1 DEF Metadata!LocalSeqLen
<1>. QED BY <1>4, <1>5

\* A token is the one at its offset in the query of its request.
LEMMA TokenOfRequest ==
  ASSUME NEW t \in Metadata!FlatTokens
  PROVE  t \in Nat /\ t \div Width \in Metadata!Requests /\ t % Width \in 0..(Width - 1)
         /\ t = Metadata!QueryStart(t \div Width) + (t % Width)
<1>1. /\ t \in Nat
      /\ t < BatchSize * Width
      /\ Width \in Nat \ {0}
      /\ BatchSize \in Nat \ {0}
      /\ BatchSize * Width \in Nat
  BY MetadataConstants, Products DEF Metadata!FlatTokens
<1>2. /\ t \div Width \in Nat
      /\ t % Width \in 0..(Width - 1)
      /\ t = (Width * (t \div Width)) + (t % Width)
  BY <1>1
<1>3. t = ((t \div Width) * Width) + (t % Width)
  BY <1>1, <1>2
<1>4. t \div Width < BatchSize
  <2>. DEFINE q == t \div Width
  <2>1. SUFFICES ASSUME q >= BatchSize PROVE FALSE
    BY <1>1, <1>2
  <2>2. PICK d \in Nat : q = BatchSize + d
    <3>1. q - BatchSize \in Nat /\ q = BatchSize + (q - BatchSize)
      BY <1>1, <1>2, <2>1
    <3>. QED BY <3>1
  <2>3. q * Width = BatchSize * Width + d * Width /\ d * Width \in Nat
    <3>. HIDE DEF q
    <3>. QED BY <1>1, <2>2
  <2>. HIDE DEF q
  <2>4. q * Width \in Nat
    BY <2>3, <1>1
  <2>. QED BY <1>1, <1>2, <1>3, <2>3, <2>4 DEF q
<1>. QED BY <1>1, <1>2, <1>3, <1>4 DEF Metadata!Requests, Metadata!QueryStart

\* The new KV of every token goes to a block of its request.
LEMMA SlotTypes ==
  ASSUME computed \in [Metadata!Requests -> 0..MaxComputed], NEW t \in Metadata!FlatTokens
  PROVE  Metadata!SlotOf(t) \in Metadata!TableBlocks \X (0..(ManagerSize - 1))
<1>. DEFINE r == t \div Width
            p == Metadata!Position(t)
<1>1. r \in Metadata!Requests /\ t % Width \in 0..(Width - 1)
  BY TokenOfRequest
<1>2. /\ Width \in Nat \ {0} /\ MaxComputed \in Nat /\ ManagerSize \in Nat \ {0}
      /\ 0..((MaxComputed + Width - 1) \div ManagerSize) \subseteq DOMAIN ManagerTable[r]
  BY <1>1, MetadataConstants
<1>3. p \in Nat /\ p <= MaxComputed + Width - 1 /\ MaxComputed + Width - 1 \in Nat
  BY <1>1, <1>2 DEF Metadata!Position
<1>4. /\ p \div ManagerSize \in 0..((MaxComputed + Width - 1) \div ManagerSize)
      /\ p % ManagerSize \in 0..(ManagerSize - 1)
  <2>. DEFINE limit == MaxComputed + Width - 1
  <2>. HIDE DEF p, limit
  <2>1. p \in Nat /\ limit \in Nat /\ p <= limit
    BY <1>3 DEF limit
  <2>2. /\ p \div ManagerSize \in 0..(limit \div ManagerSize)
        /\ p % ManagerSize \in 0..(ManagerSize - 1)
    BY <1>2, <2>1, BlockOfPosition
  <2>. QED BY <2>2 DEF limit
<1>5. ManagerTable[r][p \div ManagerSize] \in Metadata!TableBlocks
  BY <1>1, <1>2, <1>4 DEF Metadata!TableBlocks, Metadata!Range
<1>. QED BY <1>4, <1>5 DEF Metadata!SlotOf

\* The shape of what a bound target reads, whichever pass it is of.
TensorsShaped(t) ==
  /\ t = [rope |-> t.rope, groups |-> t.groups]
  /\ t.groups = [g \in Metadata!Groups |->
       [startPos |-> t.groups[g].startPos, localQueryStart |-> t.groups[g].localQueryStart,
        localSeqLens |-> t.groups[g].localSeqLens, sparse |-> t.groups[g].sparse,
        slots |-> t.groups[g].slots]]

\* Their types.
TensorsTyped(t) ==
  /\ TensorsShaped(t) /\ DOMAIN t.rope \subseteq Metadata!FlatTokens
  /\ \A g \in Metadata!Groups :
       /\ t.groups[g].startPos \in [Metadata!Requests -> 0..MaxComputed]
       /\ t.groups[g].localQueryStart \in [0..BatchSize -> 0..Metadata!TokensPerRank]
       /\ t.groups[g].localSeqLens \in [Metadata!Requests -> 0..(MaxComputed + Width)]
       /\ t.groups[g].slots \in [Metadata!FlatTokens -> Metadata!TableBlocks
              \X (0..(ManagerSize - 1))]

\* What update() writes has that shape.
LEMMA RefreshedShape == \A k : TensorsShaped(Metadata!Refreshed(k))
BY DEF TensorsShaped, Metadata!Refreshed

\* Replacing both fields of a record.
LEMMA PairExcept ==
  ASSUME NEW c, NEW d, NEW t, t = [rope |-> t.rope, groups |-> t.groups]
  PROVE  [t EXCEPT !.rope = c, !.groups = d] = [rope |-> c, groups |-> d]
<1>1. t \in [rope : {t.rope}, groups : {t.groups}]
  OBVIOUS
<1>2. [t EXCEPT !.rope = c, !.groups = d] \in [rope : {c}, groups : {d}]
  BY <1>1
<1>3. ASSUME NEW x \in [rope : {c}, groups : {d}] PROVE x = [rope |-> c, groups |-> d]
  OBVIOUS
<1>. QED BY <1>2, <1>3

\* Replacing all tensors of a group.
LEMMA GroupExcept ==
  ASSUME NEW a, NEW b, NEW c, NEW d, NEW e, NEW f, NEW h, NEW i, NEW j, NEW l, NEW t,
         t = [startPos |-> a, localQueryStart |-> b, localSeqLens |-> c, sparse |-> d,
           slots |-> e]
  PROVE  [t EXCEPT !.startPos = f, !.localQueryStart = h, !.localSeqLens = i, !.sparse = j,
                   !.slots = l] =
         [startPos |-> f, localQueryStart |-> h, localSeqLens |-> i, sparse |-> j, slots |-> l]
<1>1. t \in [startPos : {a}, localQueryStart : {b}, localSeqLens : {c}, sparse : {d},
        slots : {e}]
  OBVIOUS
<1>2. [t EXCEPT !.startPos = f, !.localQueryStart = h, !.localSeqLens = i, !.sparse = j,
        !.slots = l]
        \in [startPos : {f}, localQueryStart : {h}, localSeqLens : {i}, sparse : {j},
          slots : {l}]
  BY <1>1
<1>3. ASSUME NEW x \in [startPos : {f}, localQueryStart : {h}, localSeqLens : {i}, sparse :
               {j}, slots : {l}]
      PROVE  x = [startPos |-> f, localQueryStart |-> h, localSeqLens |-> i, sparse |-> j,
               slots |-> l]
  OBVIOUS
<1>. QED BY <1>2, <1>3

\* What update() writes has these types.
LEMMA RefreshedTyped ==
  ASSUME tpSize \in TpSizes, computed \in [Metadata!Requests -> 0..MaxComputed], NEW k \in Nat
  PROVE  TensorsTyped(Metadata!Refreshed(k))
<1>1. DOMAIN Metadata!Refreshed(k).rope \subseteq Metadata!FlatTokens
  BY DEF Metadata!Refreshed
<1>2. ASSUME NEW g \in Metadata!Groups
      PROVE  Metadata!Refreshed(k).groups[g].startPos \in [Metadata!Requests -> 0..MaxComputed]
  <2>1. \A r \in Metadata!Requests : Metadata!SeqLen(r) - Width \in 0..MaxComputed
    BY SeqLenTypes
  <2>. QED BY <2>1 DEF Metadata!Refreshed
<1>3. ASSUME NEW g \in Metadata!Groups
      PROVE  Metadata!Refreshed(k).groups[g].localQueryStart \in [0..BatchSize -> 0..Metadata!TokensPerRank]
  <2>1. ASSUME NEW r \in 0..BatchSize
        PROVE  Metadata!LocalBegin(k, r) - Metadata!LocalStart(k) \in 0..Metadata!TokensPerRank
    <3>1. /\ r \in Nat
          /\ Metadata!LocalStart(k) \in Nat
          /\ Metadata!LocalEnd(k) \in Nat
          /\ Metadata!TokensPerRank \in Nat
          /\ Metadata!LocalEnd(k) = Metadata!LocalStart(k) + Metadata!TokensPerRank
      BY SliceTypes, MetadataConstants
    <3>2. Metadata!LocalBegin(k, r) \in Metadata!LocalStart(k)..Metadata!LocalEnd(k)
      BY <3>1, SliceOfRequest
    <3>. QED BY <3>1, <3>2
  <2>2. Metadata!Refreshed(k).groups[g].localQueryStart
          = [r \in 0..BatchSize |-> Metadata!LocalBegin(k, r) - Metadata!LocalStart(k)]
    BY RunningSum DEF Metadata!Refreshed
  <2>. QED BY <2>1, <2>2
<1>4. ASSUME NEW g \in Metadata!Groups
      PROVE  Metadata!Refreshed(k).groups[g].localSeqLens \in [Metadata!Requests -> 0..(MaxComputed + Width)]
  BY LocalSeqLenType DEF Metadata!Refreshed
<1>5. ASSUME NEW g \in Metadata!Groups
      PROVE  Metadata!Refreshed(k).groups[g].slots \in [Metadata!FlatTokens -> Metadata!TableBlocks \X (0..(ManagerSize - 1))]
  BY SlotTypes DEF Metadata!Refreshed
<1>. QED BY <1>1, <1>2, <1>3, <1>4, <1>5, RefreshedShape DEF TensorsTyped

\* Committing what was computed ahead is as good as updating in place: commit_from leaves
\* out no tensor.
LEMMA CommitIsRefresh ==
  ASSUME NEW k \in Metadata!Ranks, NEW t, TensorsShaped(t)
  PROVE  Metadata!Committed(t, Metadata!Refreshed(k)) = Metadata!Refreshed(k)
<1>. DEFINE new == Metadata!Refreshed(k)
            copied == [g \in Metadata!Groups |->
                [t.groups[g] EXCEPT !.startPos = new.groups[g].startPos,
                                    !.localQueryStart = new.groups[g].localQueryStart,
                                    !.localSeqLens = new.groups[g].localSeqLens,
                                    !.sparse = new.groups[g].sparse,
                                    !.slots = new.groups[g].slots]]
<1>1. TensorsShaped(new)
  BY RefreshedShape
<1>2. Metadata!Committed(t, new) = [t EXCEPT !.rope = new.rope, !.groups = copied]
  BY DEF Metadata!Committed
<1>3. copied = new.groups
  <2>1. ASSUME NEW g \in Metadata!Groups PROVE copied[g] = new.groups[g]
    <3>. DEFINE x == t.groups[g]
                y == new.groups[g]
    <3>1. x = [startPos |-> x.startPos, localQueryStart |-> x.localQueryStart,
               localSeqLens |-> x.localSeqLens, sparse |-> x.sparse, slots |-> x.slots]
      BY DEF TensorsShaped
    <3>2. y = [startPos |-> y.startPos, localQueryStart |-> y.localQueryStart,
               localSeqLens |-> y.localSeqLens, sparse |-> y.sparse, slots |-> y.slots]
      <4>. HIDE DEF new
      <4>. QED BY <1>1 DEF TensorsShaped
    <3>3. copied[g] = [x EXCEPT !.startPos = y.startPos, !.localQueryStart = y.localQueryStart,
                                !.localSeqLens = y.localSeqLens, !.sparse
                                  = y.sparse, !.slots = y.slots]
      OBVIOUS
    <3>. HIDE DEF x, y, copied
    <3>. QED BY <3>1, <3>2, <3>3, GroupExcept DEF y
  <2>2. new.groups = [g \in Metadata!Groups |-> new.groups[g]]
    <3>. HIDE DEF new
    <3>. QED BY <1>1 DEF TensorsShaped
  <2>. HIDE DEF new
  <2>. QED BY <2>1, <2>2
<1>4. /\ new = [rope |-> new.rope, groups |-> new.groups]
      /\ t = [rope |-> t.rope, groups |-> t.groups]
  <2>. HIDE DEF new
  <2>. QED BY <1>1 DEF TensorsShaped
<1>. HIDE DEF new, copied
<1>5. [t EXCEPT !.rope = new.rope, !.groups = copied] = [rope |-> new.rope, groups |-> copied]
  BY <1>4, PairExcept
<1>. QED BY <1>2, <1>3, <1>4, <1>5 DEF new

\* The inductive invariant of the metadata: what is computed ahead is of the positions at
\* hand until it is committed, and so is what a prepared rank reads.
MetadataIInv ==
  /\ tpSize \in TpSizes /\ computed \in [Metadata!Requests -> 0..MaxComputed]
  /\ prepared \subseteq Metadata!Ranks
  /\ bound = [k \in Metadata!Ranks |-> bound[k]]
  /\ scratch = [k \in Metadata!Ranks |-> scratch[k]]
  /\ \A k \in Metadata!Ranks :
       /\ TensorsTyped(bound[k])
       /\ scratch[k] # Metadata!Nothing => scratch[k] = Metadata!Refreshed(k)
       /\ k \in prepared => scratch[k] = Metadata!Nothing /\ bound[k] = Metadata!Refreshed(k)

\* The invariant holds when the updaters have been built.
LEMMA MetadataInit == Metadata!Init => MetadataIInv
<1>. SUFFICES ASSUME Metadata!Init PROVE MetadataIInv
  OBVIOUS
<1>1. tpSize \in Nat \ {0}
  BY MetadataConstants DEF Metadata!Init
<1>2. ASSUME NEW k \in Metadata!Ranks
      PROVE  TensorsTyped(bound[k]) /\ scratch[k] = Metadata!Nothing
  <2>1. bound[k] = Metadata!Refreshed(k) /\ k \in Nat
    BY <1>1 DEF Metadata!Init, Metadata!Ranks
  <2>. QED BY <2>1, RefreshedTyped DEF Metadata!Init
<1>. QED BY <1>2 DEF Metadata!Init, MetadataIInv

\* What update() writes is a function of the positions.
LEMMA SameRefreshed ==
  ASSUME tpSize' = tpSize, computed' = computed, NEW k
  PROVE  Metadata!Refreshed(k)' = Metadata!Refreshed(k)
BY DEF Metadata!Refreshed, Metadata!LocalStart, Metadata!LocalEnd, Metadata!TokensPerRank,
       Metadata!Position, Metadata!SeqLen, Metadata!LocalQueryStart, Metadata!LocalSeqLen,
       Metadata!LocalLength, Metadata!LocalStop, Metadata!LocalBegin,
       Metadata!SparseMetadata, Metadata!SlotOf

\* What a rank does not touch keeps its types.
LEMMA SameTyped ==
  ASSUME tpSize' = tpSize, NEW k, bound'[k] = bound[k]
  PROVE  TensorsTyped(bound[k]) => TensorsTyped(bound[k])'
BY DEF TensorsShaped, TensorsTyped, Metadata!TokensPerRank

\* What is computed ahead is of the positions at hand.
LEMMA LaunchScratchKeeps ==
  ASSUME MetadataIInv, NEW k \in Metadata!Ranks, Metadata!LaunchScratch(k) PROVE MetadataIInv'
<1>. USE DEF Metadata!LaunchScratch
<1>1. /\ tpSize' = tpSize
      /\ computed' = computed
      /\ bound' = bound
      /\ prepared' = prepared
      /\ Metadata!Ranks' = Metadata!Ranks
  BY DEF Metadata!Ranks
<1>2. scratch' = [j \in Metadata!Ranks |-> scratch'[j]]
  BY DEF MetadataIInv
<1>3. ASSUME NEW j \in Metadata!Ranks
      PROVE  /\ TensorsTyped(bound[j])'
             /\ scratch'[j] # Metadata!Nothing => scratch'[j] = Metadata!Refreshed(j)'
             /\ j \in prepared'
                  => scratch'[j] = Metadata!Nothing /\ bound'[j] = Metadata!Refreshed(j)'
  <2>1. Metadata!Refreshed(j)' = Metadata!Refreshed(j)
    BY <1>1, SameRefreshed
  <2>2. scratch'[j] = scratch[j] \/ (j = k /\ scratch'[j] = Metadata!Refreshed(j))
    BY DEF MetadataIInv
  <2>3. TensorsTyped(bound[j])'
    BY <1>1, SameTyped DEF MetadataIInv
  <2>. QED BY <1>1, <2>1, <2>2, <2>3 DEF MetadataIInv
<1>. QED BY <1>1, <1>2, <1>3 DEF MetadataIInv

\* A rank that has the metadata of the positions at hand may count as prepared.
LEMMA PrepareKeeps ==
  ASSUME MetadataIInv, NEW k \in Metadata!Ranks, tpSize' = tpSize, computed' = computed,
         bound' = [bound EXCEPT ![k] = Metadata!Refreshed(k)],
         scratch' = [scratch EXCEPT ![k] = Metadata!Nothing],
         prepared' = prepared \cup {k}
  PROVE  MetadataIInv'
<1>1. Metadata!Ranks' = Metadata!Ranks
  BY DEF Metadata!Ranks
<1>2. /\ scratch' = [j \in Metadata!Ranks |-> scratch'[j]]
      /\ bound' = [j \in Metadata!Ranks |-> bound'[j]]
  BY DEF MetadataIInv
<1>3. ASSUME NEW j \in Metadata!Ranks
      PROVE  /\ TensorsTyped(bound[j])'
             /\ scratch'[j] # Metadata!Nothing => scratch'[j] = Metadata!Refreshed(j)'
             /\ j \in prepared'
                  => scratch'[j] = Metadata!Nothing /\ bound'[j] = Metadata!Refreshed(j)'
  <2>1. Metadata!Refreshed(j)' = Metadata!Refreshed(j)
    BY SameRefreshed
  <2>2. CASE j = k
    <3>1. bound'[j] = Metadata!Refreshed(j)' /\ scratch'[j] = Metadata!Nothing
      BY <2>1, <2>2 DEF MetadataIInv
    <3>3. TensorsTyped(Metadata!Refreshed(j))
      <4>1. j \in Nat
        BY MetadataConstants DEF MetadataIInv, Metadata!Ranks
      <4>. QED BY <4>1, RefreshedTyped DEF MetadataIInv
    <3>4. TensorsTyped(bound[j])'
      BY <3>1, <3>3, <2>1 DEF TensorsTyped, TensorsShaped, Metadata!TokensPerRank
    <3>. QED BY <3>1, <3>4 DEF Metadata!Nothing
  <2>3. CASE j # k
    <3>1. bound'[j] = bound[j] /\ scratch'[j]
            = scratch[j] /\ (j \in prepared' <=> j \in prepared)
      BY <2>3 DEF MetadataIInv
    <3>2. TensorsTyped(bound[j])'
      BY <3>1, SameTyped DEF MetadataIInv
    <3>. QED BY <2>1, <3>1, <3>2 DEF MetadataIInv
  <2>. QED BY <2>2, <2>3
<1>4. prepared' \subseteq Metadata!Ranks
  BY DEF MetadataIInv
<1>. QED BY <1>1, <1>2, <1>3, <1>4 DEF MetadataIInv

\* Committing prepares a rank.
LEMMA CommitScratchKeeps ==
  ASSUME MetadataIInv, NEW k \in Metadata!Ranks, Metadata!CommitScratch(k)
  PROVE  MetadataIInv'
<1>1. bound' = [bound EXCEPT ![k] = Metadata!Refreshed(k)]
  <2>1. scratch[k] = Metadata!Refreshed(k) /\ TensorsShaped(bound[k])
    BY DEF Metadata!CommitScratch, MetadataIInv, TensorsTyped
  <2>2. Metadata!Committed(bound[k], scratch[k]) = Metadata!Refreshed(k)
    BY <2>1, CommitIsRefresh
  <2>. QED BY <2>2 DEF Metadata!CommitScratch, MetadataIInv
<1>. QED BY <1>1, PrepareKeeps DEF Metadata!CommitScratch

\* So does updating.
LEMMA UpdateKeeps ==
  ASSUME MetadataIInv, NEW k \in Metadata!Ranks, Metadata!Update(k)
  PROVE  MetadataIInv'
<1>1. scratch' = [scratch EXCEPT ![k] = Metadata!Nothing]
  BY DEF Metadata!Update, MetadataIInv
<1>. QED BY <1>1, PrepareKeeps DEF Metadata!Update

\* The positions may change when nothing is prepared or computed ahead any more.
LEMMA ResetKeeps ==
  ASSUME MetadataIInv, tpSize'
           = tpSize, computed' \in [Metadata!Requests -> 0..MaxComputed], bound' = bound,
         prepared' = {}, scratch' = [k \in Metadata!Ranks |-> Metadata!Nothing]
  PROVE  MetadataIInv'
<1>1. Metadata!Ranks' = Metadata!Ranks
  BY DEF Metadata!Ranks
<1>2. ASSUME NEW k \in Metadata!Ranks
      PROVE  TensorsTyped(bound[k])' /\ scratch'[k] = Metadata!Nothing
  BY SameTyped DEF MetadataIInv
<1>. QED BY <1>1, <1>2 DEF MetadataIInv, Metadata!Nothing

\* After the pass: every rank was prepared, so nothing is left computed ahead.
LEMMA AdvanceKeeps == ASSUME MetadataIInv, Metadata!Advance PROVE MetadataIInv'
<1>1. scratch = [k \in Metadata!Ranks |-> Metadata!Nothing]
  BY DEF MetadataIInv, Metadata!Advance
<1>2. computed' \in [Metadata!Requests -> 0..MaxComputed]
  <2>1. PICK accepted \in [Metadata!Requests -> 0..Width] :
          computed' = [r \in Metadata!Requests |-> computed[r] + accepted[r]]
    BY DEF Metadata!Advance
  <2>2. ASSUME NEW r \in Metadata!Requests PROVE computed[r] + accepted[r] \in 0..MaxComputed
    <3>1. computed'[r] = computed[r] + accepted[r] /\ computed'[r] <= MaxComputed
      BY <2>1 DEF Metadata!Advance
    <3>2. /\ computed[r] \in 0..MaxComputed
          /\ accepted[r] \in 0..Width
          /\ Width \in Nat
          /\ MaxComputed \in Nat
      BY MetadataConstants DEF MetadataIInv
    <3>. QED BY <3>1, <3>2
  <2>. QED BY <2>1, <2>2
<1>. QED BY <1>1, <1>2, ResetKeeps DEF Metadata!Advance

\* Parking drops what was computed ahead.
LEMMA RewindKeeps ==
  ASSUME MetadataIInv, NEW r \in Metadata!Requests, Metadata!Park(r)
  PROVE  MetadataIInv'
<1>1. computed' \in [Metadata!Requests -> 0..MaxComputed]
  <2>1. PICK position \in 0..computed[r] : computed' = [computed EXCEPT ![r] = position]
    BY DEF Metadata!Park
  <2>2. position \in 0..MaxComputed
    BY <2>1, MetadataConstants DEF MetadataIInv
  <2>. QED BY <2>1, <2>2 DEF MetadataIInv
<1>. QED BY <1>1, ResetKeeps DEF Metadata!Park

\* Every step of the metadata keeps its invariant.
LEMMA MetadataKeeps == ASSUME MetadataIInv, [Metadata!Next]_(Metadata!vars) PROVE MetadataIInv'
<1>1. CASE UNCHANGED Metadata!vars
  <2>1. Metadata!Ranks' = Metadata!Ranks
    BY <1>1 DEF Metadata!Ranks, Metadata!vars
  <2>2. ASSUME NEW k \in Metadata!Ranks
        PROVE  /\ TensorsTyped(bound[k])'
               /\ scratch'[k] # Metadata!Nothing => scratch'[k] = Metadata!Refreshed(k)'
               /\ k \in prepared'
                    => scratch'[k] = Metadata!Nothing /\ bound'[k] = Metadata!Refreshed(k)'
    <3>1. Metadata!Refreshed(k)' = Metadata!Refreshed(k) /\ TensorsTyped(bound[k])'
      BY <1>1, SameRefreshed, SameTyped DEF Metadata!vars, MetadataIInv
    <3>. QED BY <1>1, <3>1 DEF Metadata!vars, MetadataIInv
  <2>. QED BY <1>1, <2>1, <2>2 DEF Metadata!vars, MetadataIInv
<1>. QED BY <1>1, LaunchScratchKeeps, CommitScratchKeeps, UpdateKeeps, AdvanceKeeps,
            RewindKeeps DEF Metadata!Next

\* The slices are disjoint and cover the cohort.
LEMMA EachTokenOnceFollows == ASSUME tpSize \in TpSizes PROVE Metadata!EachTokenOnce
<1>. SUFFICES ASSUME NEW t \in Metadata!FlatTokens
              PROVE  Metadata!Cardinality({k \in Metadata!Ranks :
                       Metadata!LocalStart(k) <= t /\ t < Metadata!LocalEnd(k)}) = 1
  BY DEF Metadata!EachTokenOnce
<1>. DEFINE S == Metadata!TokensPerRank
            m == t \div S
<1>1. /\ S \in Nat \ {0}
      /\ BatchSize * Width \in Nat
      /\ BatchSize * Width <= tpSize * S
      /\ tpSize \in Nat \ {0}
  BY SliceTypes, MetadataConstants
<1>2. t \in Nat /\ t < BatchSize * Width
  BY <1>1 DEF Metadata!FlatTokens
<1>. HIDE DEF S
<1>3. m \in Nat /\ m * S <= t /\ t < (m * S) + S
  <2>1. m \in Nat /\ t % S \in 0..(S - 1) /\ t = (S * m) + (t % S)
    BY <1>1, <1>2
  <2>2. m * S = S * m
    BY <1>1, <2>1
  <2>3. m * S \in Nat
    BY <1>1, <2>1, Products
  <2>. HIDE DEF m
  <2>. QED BY <1>1, <2>1, <2>2, <2>3
<1>. HIDE DEF m
<1>4. ASSUME NEW k \in Nat, k * S <= t, t < (k * S) + S PROVE k = m
  <2>1. \A a, b \in Nat : a < b => a * S + S <= b * S
    <3>. SUFFICES ASSUME NEW a \in Nat, NEW b \in Nat, a < b PROVE a * S + S <= b * S
      OBVIOUS
    <3>1. b = (a + 1) + (b - a - 1) /\ b - a - 1 \in Nat
      OBVIOUS
    <3>2. PICK d \in Nat : b = (a + 1) + d
      BY <3>1
    <3>3. b * S = (a * S + S) + d * S /\ a * S \in Nat /\ d * S \in Nat
      BY <1>1, <3>2
    <3>. QED BY <3>3, <1>1
  <2>2. k * S \in Nat /\ m * S \in Nat
    BY <1>1, <1>3, Products
  <2>3. ~(k < m)
    <3>. SUFFICES ASSUME k < m PROVE FALSE
      OBVIOUS
    <3>1. k * S + S <= m * S
      BY <2>1, <1>3
    <3>. QED BY <3>1, <1>1, <1>2, <1>3, <1>4, <2>2
  <2>4. ~(m < k)
    <3>. SUFFICES ASSUME m < k PROVE FALSE
      OBVIOUS
    <3>1. m * S + S <= k * S
      BY <2>1, <1>3
    <3>. QED BY <3>1, <1>1, <1>2, <1>3, <1>4, <2>2
  <2>. QED BY <2>3, <2>4, <1>3
<1>5. m < tpSize
  <2>. SUFFICES ASSUME m >= tpSize PROVE FALSE
    BY <1>1, <1>3
  <2>1. PICK d \in Nat : m = tpSize + d
    <3>1. m - tpSize \in Nat /\ m = tpSize + (m - tpSize)
      BY <1>1, <1>3
    <3>. QED BY <3>1
  <2>2. m * S = (tpSize * S) + (d * S) /\ tpSize * S \in Nat /\ d * S \in Nat
    BY <1>1, <2>1
  <2>. QED BY <1>1, <1>2, <1>3, <2>2
<1>6. {k \in Metadata!Ranks : Metadata!LocalStart(k) <= t /\ t < Metadata!LocalEnd(k)} = {m}
  <2>1. \A k : Metadata!LocalStart(k) = k * S /\ Metadata!LocalEnd(k) = (k * S) + S
    BY DEF Metadata!LocalStart, Metadata!LocalEnd, S
  <2>2. Metadata!Ranks = 0..(tpSize - 1) /\ m \in Metadata!Ranks
    BY <1>1, <1>3, <1>5 DEF Metadata!Ranks
  <2>3. ASSUME NEW k \in Metadata!Ranks
        PROVE  (Metadata!LocalStart(k) <= t /\ t < Metadata!LocalEnd(k)) <=> k = m
    <3>1. k \in Nat
      BY <1>1, <2>2
    <3>. QED BY <1>3, <1>4, <2>1, <3>1
  <2>. QED BY <2>2, <2>3
<1>. QED BY <1>6, FS_Singleton, SameCardinality

\* A prepared rank has the metadata of the pass at hand.
LEMMA PreparedFollows == MetadataIInv => Metadata!PreparedIsCurrent
BY DEF MetadataIInv, Metadata!PreparedIsCurrent

\* The running sums attribute each token of a slice to its request, and to no other.
LEMMA RowOfToken ==
  ASSUME tpSize \in TpSizes, NEW k \in Metadata!Ranks,
         NEW t \in (Metadata!LocalStart(k)..(Metadata!LocalEnd(k) - 1)) \cap Metadata!FlatTokens
  PROVE  Metadata!RowIn(Metadata!LocalQueryStart(k), t - Metadata!LocalStart(k)) = t \div Width
<1>. DEFINE query == Metadata!LocalQueryStart(k)
            i == t - Metadata!LocalStart(k)
<1>1. /\ k \in Nat
      /\ Metadata!LocalStart(k) \in Nat
      /\ Metadata!LocalEnd(k) \in Nat
      /\ Metadata!LocalStart(k) < Metadata!LocalEnd(k)
      /\ t \in Nat
  <2>1. k \in Nat
    BY MetadataConstants DEF Metadata!Ranks
  <2>. QED BY <2>1, SliceTypes, TokenOfRequest
<1>2. ASSUME NEW r \in Metadata!Requests
      PROVE  (query[r] <= i /\ i < query[r + 1])
                 <=> (Metadata!QueryStart(r) <= t /\ t < Metadata!QueryStart(r + 1))
  <2>1. r \in 0..BatchSize /\ r + 1 \in 0..BatchSize /\ r \in Nat
    BY MetadataConstants DEF Metadata!Requests
  <2>2. /\ query[r] = Metadata!LocalBegin(k, r) - Metadata!LocalStart(k)
        /\ query[r + 1] = Metadata!LocalStop(k, r) - Metadata!LocalStart(k)
    <3>1. /\ query[r] = Metadata!LocalBegin(k, r) - Metadata!LocalStart(k)
          /\ query[r + 1] = Metadata!LocalBegin(k, r + 1) - Metadata!LocalStart(k)
      BY <1>1, <2>1, RunningSum
    <3>. QED BY <1>1, <2>1, <3>1, SliceOfRequest
  <2>3. /\ Metadata!LocalBegin(k, r) \in Metadata!LocalStart(k)..Metadata!LocalEnd(k)
        /\ Metadata!LocalStop(k, r) \in Metadata!LocalStart(k)..Metadata!LocalEnd(k)
        /\ Metadata!LocalBegin(k, r) <= t <=> Metadata!QueryStart(r) <= t
        /\ Metadata!LocalStop(k, r) <= t <=> Metadata!QueryStart(r + 1) <= t
    BY <1>1, <2>1, SliceOfRequest
  <2>4. Metadata!QueryStart(r) \in Nat /\ Metadata!QueryStart(r + 1) \in Nat
    <3>1. /\ Metadata!QueryStart(r) \in Nat
          /\ Metadata!QueryStart(r + 1) = Metadata!QueryStart(r) + Width
          /\ Width \in Nat
      BY <2>1, SliceTypes, MetadataConstants
    <3>. QED BY <3>1
  <2>. HIDE DEF query
  <2>. QED BY <1>1, <2>2, <2>3, <2>4
<1>3. ASSUME NEW r \in Metadata!Requests, Metadata!QueryStart(r) <= t, t < Metadata!QueryStart(r + 1)
      PROVE  r = t \div Width
  <2>1. Width \in Nat \ {0} /\ r \in Nat /\ t \in Nat
    BY <1>1, MetadataConstants DEF Metadata!Requests
  <2>2. /\ Metadata!QueryStart(r) \in Nat
        /\ Metadata!QueryStart(r + 1) = Metadata!QueryStart(r) + Width
    BY <2>1, SliceTypes
  <2>3. Metadata!QueryStart(r) = r * Width
    BY DEF Metadata!QueryStart
  <2>4. t - r * Width \in 0..(Width - 1)
    BY <1>3, <2>1, <2>2, <2>3
  <2>. QED BY <2>1, <2>4, DivideUnique
<1>4. /\ t \div Width \in Metadata!Requests
      /\ Metadata!QueryStart(t \div Width) <= t
      /\ t < Metadata!QueryStart((t \div Width) + 1)
  <2>1. /\ t \div Width \in Metadata!Requests
        /\ t % Width \in 0..(Width - 1)
        /\ t = Metadata!QueryStart(t \div Width) + (t % Width)
        /\ Width \in Nat \ {0}
    BY TokenOfRequest, MetadataConstants
  <2>2. t \div Width \in Nat
    BY <2>1, MetadataConstants DEF Metadata!Requests
  <2>3. /\ Metadata!QueryStart(t \div Width) \in Nat
        /\ Metadata!QueryStart((t \div Width) + 1) = Metadata!QueryStart(t \div Width) + Width
    BY <2>2, SliceTypes
  <2>. HIDE DEF query, i
  <2>. QED BY <2>1, <2>3
<1>5. \A r \in Metadata!Requests : (query[r] <= i /\ i < query[r + 1]) <=> r = t \div Width
  BY <1>2, <1>3, <1>4
<1>. HIDE DEF query, i
<1>6. Metadata!RowIn(query, i) = t \div Width
  BY <1>4, <1>5 DEF Metadata!RowIn
<1>. QED BY <1>6 DEF query, i

\* A token of a slice sees the keys up to its own position.
LEMMA KeysOfToken ==
  ASSUME tpSize \in TpSizes, computed \in [Metadata!Requests -> 0..MaxComputed],
           NEW k \in Metadata!Ranks,
         NEW t \in (Metadata!LocalStart(k)..(Metadata!LocalEnd(k) - 1)) \cap Metadata!FlatTokens
  PROVE  Metadata!KeysSeen(Metadata!LocalQueryStart(k),
           [r \in Metadata!Requests |-> Metadata!LocalSeqLen(k, r)], t - Metadata!LocalStart(k))
           = Metadata!Position(t) + 1
<1>. DEFINE r == t \div Width
            first == Metadata!QueryStart(r)
            stop == Metadata!LocalStop(k, r)
            start == Metadata!LocalStart(k)
<1>1. /\ k \in Nat
      /\ r \in Metadata!Requests
      /\ t % Width \in 0..(Width - 1)
      /\ t = first + (t % Width)
      /\ t \in Nat
  BY TokenOfRequest, MetadataConstants DEF Metadata!Ranks
<1>2. r \in Nat /\ r + 1 \in 0..BatchSize /\ Width \in Nat \ {0}
  BY <1>1, MetadataConstants DEF Metadata!Requests
<1>3. /\ start \in Nat
      /\ Metadata!LocalEnd(k) \in Nat
      /\ first \in Nat
      /\ Metadata!QueryStart(r + 1) = first + Width
  <2>. HIDE DEF r
  <2>. QED BY <1>1, <1>2, SliceTypes
<1>4. /\ Metadata!LocalBegin(k, r) \in start..Metadata!LocalEnd(k)
      /\ stop \in start..Metadata!LocalEnd(k)
      /\ Metadata!LocalBegin(k, r) <= t <=> first <= t
      /\ stop <= t <=> Metadata!QueryStart(r + 1) <= t
      /\ Metadata!LocalBegin(k, r + 1) = stop
  <2>. HIDE DEF r
  <2>. QED BY <1>1, <1>2, SliceOfRequest
<1>5. Metadata!LocalBegin(k, r) <= t /\ t < stop
  <2>. HIDE DEF r, first, stop, start
  <2>. QED BY <1>1, <1>2, <1>3, <1>4
<1>6. Metadata!LocalLength(k, r) > 0
  <2>. HIDE DEF r, first, start
  <2>. QED BY <1>1, <1>3, <1>4, <1>5 DEF Metadata!LocalLength
<1>7. Metadata!SeqLen(r) = computed[r] + Width /\ computed[r] \in Nat
  <2>. HIDE DEF r
  <2>. QED BY <1>1, MetadataConstants DEF Metadata!SeqLen
<1>8. Metadata!LocalSeqLen(k, r) = computed[r] + Width - ((first + Width) - stop)
  <2>1. Metadata!LocalSeqLen(k, r)
          = Metadata!Max({Metadata!SeqLen(r) - (Metadata!QueryStart(r + 1) - stop), 0})
    BY <1>6 DEF Metadata!LocalSeqLen
  <2>. HIDE DEF r, first, stop, start
  <2>2. /\ Metadata!SeqLen(r) - (Metadata!QueryStart(r + 1) - stop) \in Int
        /\ Metadata!SeqLen(r) - (Metadata!QueryStart(r + 1) - stop) > 0
    BY <1>1, <1>2, <1>3, <1>4, <1>5, <1>7
  <2>3. Metadata!LocalSeqLen(k, r) = Metadata!SeqLen(r) - (Metadata!QueryStart(r + 1) - stop)
    BY <2>1, <2>2, MaxOfTwo
  <2>. QED BY <2>3, <1>1, <1>2, <1>3, <1>4, <1>7
<1>9. Metadata!LocalQueryStart(k)[r + 1] = stop - start
  <2>1. Metadata!LocalQueryStart(k)
          = [q \in 0..BatchSize |-> Metadata!LocalBegin(k, q) - Metadata!LocalStart(k)]
    BY <1>1, RunningSum
  <2>. HIDE DEF r
  <2>. QED BY <1>2, <1>4, <2>1
<1>10. Metadata!RowIn(Metadata!LocalQueryStart(k), t - start) = r
  BY RowOfToken
<1>11. Metadata!Position(t) = computed[r] + (t % Width)
  BY DEF Metadata!Position
<1>12. Metadata!KeysSeen(Metadata!LocalQueryStart(k),
         [q \in Metadata!Requests |-> Metadata!LocalSeqLen(k, q)], t - start)
         = Metadata!LocalSeqLen(k, r) - ((stop - start) - 1 - (t - start))
  <2>. HIDE DEF r, first, stop, start
  <2>. QED BY <1>1, <1>9, <1>10 DEF Metadata!KeysSeen
<1>. HIDE DEF r, first, stop
<1>13. Metadata!LocalSeqLen(k, r) - ((stop - start) - 1 - (t - start))
         = computed[r] + (t % Width) + 1
  <2>. HIDE DEF start
  <2>. QED BY <1>1, <1>2, <1>3, <1>4, <1>7, <1>8
<1>. QED BY <1>11, <1>12, <1>13

\* So the ranks attend as one.
LEMMA AttentionFollows == MetadataIInv => Metadata!AttendsCausally
<1>. SUFFICES ASSUME MetadataIInv, prepared = Metadata!Ranks, NEW k \in Metadata!Ranks,
                         NEW g \in Metadata!Groups
     PROVE  LET group == bound[k].groups[g]
            IN  /\ group.sparse = [ratio |-> GroupRatios[g], query |-> group.localQueryStart,
                                   lengths |-> group.localSeqLens]
                /\ \A t \in DOMAIN bound[k].rope :
                     LET i == t - Metadata!LocalStart(k)
                     IN  /\ Metadata!RowIn(group.localQueryStart, i) = t \div Width
                         /\ Metadata!KeysSeen(group.localQueryStart, group.localSeqLens,
                              i) = Metadata!Position(t) + 1
                         /\ bound[k].rope[t] = Metadata!Position(t)
  BY DEF Metadata!AttendsCausally
<1>1. /\ bound[k] = Metadata!Refreshed(k)
      /\ tpSize \in TpSizes
      /\ computed \in [Metadata!Requests -> 0..MaxComputed]
  BY DEF MetadataIInv
<1>2. Metadata!Refreshed(k).groups[g].sparse =
        [ratio |-> GroupRatios[g], query |-> Metadata!LocalQueryStart(k),
         lengths |-> [r \in Metadata!Requests |-> Metadata!LocalSeqLen(k, r)]]
  BY MinOfRatios DEF Metadata!Refreshed, Metadata!SparseMetadata
<1>3. /\ Metadata!Refreshed(k).groups[g].localQueryStart = Metadata!LocalQueryStart(k)
      /\ Metadata!Refreshed(k).groups[g].localSeqLens
           = [r \in Metadata!Requests |-> Metadata!LocalSeqLen(k, r)]
      /\ Metadata!Refreshed(k).rope
           = [t \in (Metadata!LocalStart(k)..(Metadata!LocalEnd(k) - 1)) \cap Metadata!FlatTokens |-> Metadata!Position(t)]
  BY DEF Metadata!Refreshed
<1>. QED BY <1>1, <1>2, <1>3, RowOfToken, KeysOfToken

\* The types follow from the invariant.
LEMMA MetadataTypes == MetadataIInv => Metadata!TypeOK
<1>. SUFFICES ASSUME MetadataIInv PROVE Metadata!TypeOK
  OBVIOUS
<1>1. ASSUME NEW k \in Metadata!Ranks, scratch[k] # Metadata!Nothing
      PROVE  DOMAIN scratch[k].groups = Metadata!Groups
  <2>1. scratch[k] = Metadata!Refreshed(k) /\ TensorsShaped(Metadata!Refreshed(k))
    BY <1>1, RefreshedShape DEF MetadataIInv
  <2>. QED BY <2>1 DEF TensorsShaped
<1>. QED BY <1>1 DEF MetadataIInv, TensorsTyped, Metadata!TypeOK

(* A compressed token whose last token is q: its number is (q + 1) / ratio - 1 *)
LEMMA LastOfCompressed ==
  ASSUME NEW s \in Nat, NEW W \in Nat \ {0}, NEW R \in Nat \ {0}
  PROVE  {q \div R : q \in {x \in s..(s + W - 1) : (x + 1) % R = 0}}
           = (s \div R)..((s + W) \div R - 1)
<1>. DEFINE Written == {q \div R : q \in {x \in s..(s + W - 1) : (x + 1) % R = 0}}
            Listed == (s \div R)..((s + W) \div R - 1)
            lo == s \div R
            hi == (s + W) \div R
<1>1. lo \in Nat /\ s % R \in 0..(R - 1) /\ s = (R * lo) + (s % R)
  OBVIOUS
<1>2. hi \in Nat /\ (s + W) % R \in 0..(R - 1) /\ s + W = (R * hi) + ((s + W) % R)
  <2>1. s + W \in Nat
    OBVIOUS
  <2>. DEFINE e == s + W
  <2>. HIDE DEF e
  <2>2. e \div R \in Nat /\ e % R \in 0..(R - 1) /\ e = (R * (e \div R)) + (e % R)
    BY <2>1 DEF e
  <2>. QED BY <2>2 DEF e
<1>. HIDE DEF lo, hi
<1>3. ASSUME NEW p \in Nat, NEW n \in Nat, p <= n
      PROVE  R * p <= R * n /\ R * p \in Nat /\ R * n \in Nat
  <2>1. PICK d \in Nat : n = p + d
    <3>1. n - p \in Nat /\ n = p + (n - p)
      BY <1>3
    <3>. QED BY <3>1
  <2>2. R * n = (R * p) + (R * d) /\ R * d \in Nat /\ R * p \in Nat
    BY <2>1
  <2>. QED BY <2>2
<1>4. ASSUME NEW p \in Listed PROVE p \in Written
  <2>1. p \in Nat /\ lo <= p /\ p + 1 <= hi
    BY <1>1, <1>2, <1>4 DEF lo, hi
  <2>. DEFINE q == (R * (p + 1)) - 1
  <2>2. /\ R * lo <= R * p
        /\ R * (p + 1) <= R * hi
        /\ R * p \in Nat
        /\ R * (p + 1) = (R * p) + R
        /\ R * hi \in Nat
    <3>1. R * lo <= R * p /\ R * p \in Nat
      BY <1>1, <1>3, <2>1
    <3>2. R * (p + 1) <= R * hi /\ R * hi \in Nat
      BY <1>2, <1>3, <2>1
    <3>3. R * (p + 1) = (R * p) + R
      BY <2>1
    <3>. QED BY <3>1, <3>2, <3>3
  <2>3. q \in s..(s + W - 1)
    BY <1>1, <1>2, <2>1, <2>2
  <2>4. (q + 1) % R = 0
    <3>1. q + 1 = R * (p + 1)
      BY <2>2
    <3>2. (R * (p + 1)) % R = 0
      BY <2>1
    <3>. QED BY <3>1, <3>2
  <2>5. q \div R = p
    <3>1. q - p * R \in 0..(R - 1) /\ q \in Nat
      <4>1. p * R = R * p
        BY <2>1
      <4>. QED BY <2>2, <4>1
    <3>. HIDE DEF q
    <3>. QED BY <2>1, <3>1, DivideUnique
  <2>. HIDE DEF q
  <2>. QED BY <2>3, <2>4, <2>5
<1>5. ASSUME NEW q \in s..(s + W - 1), (q + 1) % R = 0 PROVE q \div R \in Listed
  <2>. DEFINE n == (q + 1) \div R
  <2>1. n \in Nat /\ q + 1 = R * n /\ q \in Nat
    BY <1>5
  <2>. HIDE DEF n
  <2>2. n # 0
    BY <2>1
  <2>. DEFINE p == n - 1
  <2>3. p \in Nat /\ n = p + 1 /\ q + 1 = (R * p) + R
    BY <2>1, <2>2
  <2>. HIDE DEF p
  <2>4. R * p \in Nat /\ q = (R * p) + (R - 1)
    BY <2>3, <2>1
  <2>5. q \div R = p
    <3>1. p * R = R * p
      BY <2>3
    <3>2. q - p * R \in 0..(R - 1)
      BY <2>4, <3>1
    <3>. QED BY <2>1, <2>3, <3>2, DivideUnique
  <2>6. lo <= p
    <3>. SUFFICES ASSUME p + 1 <= lo PROVE FALSE
      BY <1>1, <2>3
    <3>1. R * (p + 1) <= R * lo /\ R * (p + 1) = (R * p) + R /\ R * lo \in Nat
      BY <1>1, <1>3, <2>3
    <3>. QED BY <1>1, <1>5, <2>4, <3>1
  <2>7. p + 1 <= hi
    <3>. SUFFICES ASSUME hi + 1 <= p + 1 PROVE FALSE
      BY <1>2, <2>3
    <3>1. /\ R * (hi + 1) <= R * (p + 1)
          /\ R * (p + 1) = (R * p) + R
          /\ R * (hi + 1) = (R * hi) + R
          /\ R * hi \in Nat
      <4>1. R * (hi + 1) <= R * (p + 1)
        BY <1>2, <1>3, <2>3
      <4>2. R * hi \in Nat
        BY <1>2, <1>3
      <4>. QED BY <4>1, <4>2, <2>3, <1>2
    <3>. QED BY <1>2, <1>5, <2>4, <3>1
  <2>. QED BY <1>1, <1>2, <2>3, <2>5, <2>6, <2>7 DEF lo, hi
<1>. QED BY <1>4, <1>5

\* The blocks of W tokens from s.
LEMMA BlocksOfSpan ==
  ASSUME NEW s \in Nat, NEW W \in Nat \ {0}, NEW B \in Nat \ {0}
  PROVE  {p \div B : p \in s..(s + W - 1)} = (s \div B)..((s + W - 1) \div B)
<1>. DEFINE e == s + W - 1
<1>1. e \in Nat /\ s <= e
  OBVIOUS
<1>. HIDE DEF e
<1>2. ASSUME NEW p \in s..e PROVE p \div B \in (s \div B)..(e \div B)
  <2>1. p \in Nat /\ s <= p /\ p <= e
    BY <1>1
  <2>2. s \div B <= p \div B
    BY <2>1
  <2>3. p \div B <= e \div B
    BY <1>1, <2>1
  <2>4. s \div B \in Nat /\ e \div B \in Nat /\ p \div B \in Nat
    BY <1>1, <2>1
  <2>. QED BY <2>2, <2>3, <2>4
<1>3. ASSUME NEW c \in (s \div B)..(e \div B) PROVE \E p \in s..e : p \div B = c
  <2>1. s \div B \in Nat /\ s % B \in 0..(B - 1) /\ s = (B * (s \div B)) + (s % B)
    OBVIOUS
  <2>2. e \div B \in Nat /\ e % B \in 0..(B - 1) /\ e = (B * (e \div B)) + (e % B)
    BY <1>1
  <2>3. c \in Nat /\ s \div B <= c /\ c <= e \div B
    BY <2>1, <2>2
  <2>4. CASE c = s \div B
    BY <2>4, <1>1
  <2>5. CASE c # s \div B
    <3>. DEFINE lo == s \div B
                hi == e \div B
                p == c * B
    <3>. HIDE DEF lo, hi
    <3>1. lo \in Nat /\ hi \in Nat /\ lo + 1 <= c /\ c <= hi
      BY <2>1, <2>2, <2>3, <2>5 DEF lo, hi
    <3>2. PICK d \in Nat : c = (lo + 1) + d
      <4>1. c - lo - 1 \in Nat /\ c = (lo + 1) + (c - lo - 1)
        BY <2>3, <3>1
      <4>. QED BY <4>1
    <3>3. PICK f \in Nat : hi = c + f
      <4>1. hi - c \in Nat /\ hi = c + (hi - c)
        BY <2>3, <3>1
      <4>. QED BY <4>1
    <3>4. c * B = (B * lo) + B + (B * d) /\ B * d \in Nat /\ B * lo \in Nat
      BY <3>1, <3>2
    <3>5. B * hi = (c * B) + (B * f) /\ B * f \in Nat /\ c * B \in Nat
      BY <2>3, <3>3
    <3>6. p \in s..e
      BY <1>1, <2>1, <2>2, <3>4, <3>5 DEF lo, hi
    <3>7. p \div B = c
      <4>1. p - c * B \in 0..(B - 1) /\ p \in Nat
        BY <3>5
      <4>. HIDE DEF p
      <4>. QED BY <2>3, <4>1, DivideUnique
    <3>. QED BY <3>6, <3>7
  <2>. QED BY <2>4, <2>5
<1>4. {p \div B : p \in s..e} = (s \div B)..(e \div B)
  BY <1>2, <1>3
<1>. QED BY <1>4 DEF e

\* The pages of the manifest are the pages that the pass writes.
LEMMA ManifestFollows == MetadataIInv => Metadata!ManifestIsExact
<1>. SUFFICES ASSUME MetadataIInv, NEW k \in prepared, NEW g \in Metadata!Groups
              PROVE  Metadata!TablePages(k, g) = Metadata!PagesWritten(g)
  BY DEF Metadata!ManifestIsExact
<1>. DEFINE start(r) == bound[k].groups[g].startPos[r]
            columns(r) ==
              IF Metadata!Compressed(g)
              THEN {p \div ManagerSize :
                p \in Metadata!FirstToLastCompleted(start(r), GroupRatios[g])}
              ELSE (start(r) \div ManagerSize)..((start(r) + Width - 1) \div ManagerSize)
            span(r) == {q \in computed[r]..(computed[r] + Width - 1) :
                          Metadata!Compressed(g) => (q + 1) % GroupRatios[g] = 0}
            written(r) == {(IF Metadata!Compressed(g)
                              THEN (p \div GroupRatios[g]) \div ManagerSize
                                             ELSE p \div ManagerSize) : p \in span(r)}
<1>1. Width \in Nat \ {0} /\ ManagerSize \in Nat \ {0} /\ GroupRatios[g] \in Nat \ {0}
  BY MetadataConstants
<1>2. ASSUME NEW r \in Metadata!Requests PROVE start(r) = computed[r] /\ computed[r] \in Nat
  <2>1. /\ bound[k] = Metadata!Refreshed(k)
        /\ computed[r] \in 0..MaxComputed
        /\ MaxComputed \in Nat
    BY MetadataConstants DEF MetadataIInv
  <2>2. Metadata!Refreshed(k).groups[g].startPos[r] = Metadata!SeqLen(r) - Width
    BY DEF Metadata!Refreshed
  <2>3. Metadata!SeqLen(r) - Width = computed[r]
    BY SeqLenTypes DEF MetadataIInv
  <2>. QED BY <2>1, <2>2, <2>3
<1>3. ASSUME NEW r \in Metadata!Requests PROVE columns(r) = written(r)
  <2>. DEFINE s == computed[r]
              R == GroupRatios[g]
  <2>1. start(r) = s /\ s \in Nat
    BY <1>2
  <2>2. CASE Metadata!Compressed(g)
    <3>1. columns(r) = {p \div ManagerSize : p \in (s \div R)..((s + Width) \div R - 1)}
      BY <2>1, <2>2 DEF Metadata!FirstToLastCompleted
    <3>2. written(r)
            = {(q \div R) \div ManagerSize : q \in {x \in s..(s + Width - 1) : (x + 1) % R = 0}}
      BY <2>2
    <3>3. {(q \div R) \div ManagerSize : q \in {x \in s..(s + Width - 1) : (x + 1) % R = 0}}
            = {p \div ManagerSize :
              p \in {q \div R : q \in {x \in s..(s + Width - 1) : (x + 1) % R = 0}}}
      OBVIOUS
    <3>4. {q \div R : q \in {x \in s..(s + Width - 1) : (x + 1) % R = 0}}
            = (s \div R)..((s + Width) \div R - 1)
      <4>. HIDE DEF s, R
      <4>1. s \in Nat /\ R \in Nat \ {0}
        BY <1>1, <2>1 DEF R
      <4>. QED BY <1>1, <4>1, LastOfCompressed
    <3>. QED BY <3>1, <3>2, <3>3, <3>4
  <2>3. CASE ~Metadata!Compressed(g)
    <3>1. columns(r) = (s \div ManagerSize)..((s + Width - 1) \div ManagerSize)
      BY <2>1, <2>3
    <3>2. written(r) = {p \div ManagerSize : p \in s..(s + Width - 1)}
      BY <2>3
    <3>. QED BY <1>1, <2>1, <3>1, <3>2, BlocksOfSpan
  <2>. QED BY <2>2, <2>3
<1>4. Metadata!TablePages(k, g)
        = UNION {{ManagerTable[r][c] : c \in columns(r)} : r \in Metadata!Requests}
  BY DEF Metadata!TablePages
<1>5. Metadata!PagesWritten(g)
        = UNION {{ManagerTable[r][c] : c \in written(r)} : r \in Metadata!Requests}
  <2>1. ASSUME NEW r \in Metadata!Requests
        PROVE  {ManagerTable[r][c] : c \in written(r)} =
                 {ManagerTable[r][IF Metadata!Compressed(g)
                     THEN (p \div GroupRatios[g]) \div ManagerSize
                                                 ELSE p \div ManagerSize] : p \in span(r)}
    OBVIOUS
  <2>. QED BY <2>1 DEF Metadata!PagesWritten
<1>. HIDE DEF columns, written
<1>. QED BY <1>3, <1>4, <1>5

-----------------------------------------------------------------------------
(* The light recorder *)
\* What the constants are, and the size of the pool.
LEMMA PoolSize ==
  /\ Len(Recorder!LABELS) = 5
  /\ Recorder!Terminal = MaxCycles * 5
  /\ Recorder!Terminal \in Nat \ {0}
  /\ MaxCycles \in Nat \ {0} /\ NumSlots \in Nat \ {0} /\ Cohorts \in Nat
  /\ WarmCohorts \in Nat /\ WarmCohorts <= Cohorts /\ Recorder!Terminal \in Recorder!Events
<1>1. Len(Recorder!LABELS) = 5
  BY DEF Recorder!LABELS
<1>. QED BY <1>1, RecorderAssumption
            DEF Recorder!LightStageAssumption, Recorder!Terminal, Recorder!Events

\* The cycle of an event.
LEMMA DivideByFive == ASSUME NEW n \in Nat, NEW c \in Nat, n - 5 * c \in 0..4 PROVE n \div 5 = c
OBVIOUS

\* The class rows.
Rows == [before : 0..NumSlots, after : 0..NumSlots]

\* The records on the stream.
Records == [event : Recorder!Events, mark : Recorder!Marks]

\* What is known of an executed record.
Executions == [generation : 0..(Cohorts + 1), mark : Recorder!Marks, time : 0..now]

\* The states of the recorder.
RecorderStates == [active : BOOLEAN, cohort : WarmCohorts..Cohorts, next : 0..Recorder!Terminal,
           terminal : -1..(MaxCycles - 1), classes : Seq(Rows)]

(* The records since the pool was last quiet: those of the cohort, or those of the warm-up. *)
Total == IF recorder.active THEN recorder.next + (IF recorder.terminal = -1 THEN 0 ELSE 1)
                            ELSE Recorder!Terminal + 1

\* The event of the k-th of these records.
EventAt(k) == IF recorder.active /\ k = recorder.next + 1 THEN Recorder!Terminal ELSE k - 1

\* What the k-th of them stands for.
MarkAt(k) ==
  IF recorder.active
  THEN [cohort |-> recorder.cohort,
        cycle |-> IF k = recorder.next + 1 THEN recorder.terminal ELSE (k - 1) \div 5]
  ELSE Recorder!Warm

\* How many of them the device has executed.
Done == Total - Len(stream)

\* Whether an event waits on the stream.
Pending(e) == \E i \in 1..Len(stream) : stream[i].event = e

\* The recorder's state.
RecorderType ==
  /\ recorder \in RecorderStates
  /\ recorder.terminal # -1 => recorder.next = 5 * (recorder.terminal + 1)
  /\ recorder.active => recorder.cohort <= served

\* The stream holds the last of these records, in order: those not yet executed.
StreamIsSuffix ==
  /\ stream \in Seq(Records) /\ Len(stream) <= Total
  /\ \A i \in 1..Len(stream) :
       stream[i] = [event |-> EventAt(Done + i), mark |-> MarkAt(Done + i)]

\* An event is recorded at most once per cohort, and its record is executed or on the
\* stream.
GenerationsCount ==
  /\ generation \in [Recorder!Events -> 1..(Cohorts + 1)]
  /\ \A e \in Recorder!Events :
       /\ generation[e] = executed[e].generation + (IF Pending(e) THEN 1 ELSE 0)
       /\ ~recorder.active => generation[e] <= served + 1
       /\ recorder.active =>
            generation[e] <= recorder.cohort + (IF \E k \in 1..Total : EventAt(k) = e THEN 1
                ELSE 0)

\* The records of a cohort that are executed keep their marks, at increasing times.
ExecutedInOrder ==
  /\ now \in Nat
  /\ executed \in [Recorder!Events -> Executions]
  /\ recorder.active =>
       /\ \A k \in 1..Done : executed[EventAt(k)].mark = MarkAt(k)
       /\ \A k \in 1..(Done - 1) : executed[EventAt(k)].time < executed[EventAt(k + 1)].time

\* What the recorder has been told depends only on where the runner is in the cohort; its
\* class rows lead without a gap to the slots that are parked.
RunnerProgress ==
  /\ served \in 0..Cohorts /\ stage \in 0..(MaxCycles - 1) /\ parked \in 0..NumSlots
  /\ pc \in {"waiting", "step", "parking", "ending", "draining", "exporting", "raised"}
  /\ pc \notin {"waiting", "raised"} =>
       /\ recorder.active /\ recorder.cohort = served
       /\ recorder.terminal = IF pc \in {"draining", "exporting"} THEN stage ELSE -1
       /\ Len(recorder.classes) = IF pc \in {"step", "parking"} THEN stage ELSE stage + 1
       /\ IF pc = "step" THEN recorder.next - 5 * stage \in 0..4
                         ELSE recorder.next = 5 * (stage + 1)
       /\ parked = IF recorder.classes = <<>> THEN 0
              ELSE recorder.classes[Len(recorder.classes)].after
       /\ pc \in {"ending", "draining", "exporting"} => parked = NumSlots
       /\ recorder.classes # <<>> => recorder.classes[1].before = 0
       /\ \A c \in 1..(Len(recorder.classes) - 1) :
            recorder.classes[c].after = recorder.classes[c + 1].before
  /\ pc = "exporting" => stream = <<>>

\* What does not depend on the runner.
DeviceParts == RecorderType /\ StreamIsSuffix /\ GenerationsCount /\ ExecutedInOrder

\* The inductive invariant of the recorder.
RecorderIInv == DeviceParts /\ RunnerProgress /\ Recorder!OnlyBeginRaises
                    /\ Recorder!PacketOfOneCohort

\* No event is recorded twice in a cohort, so the pool suffices.
LEMMA TotalType ==
  ASSUME RecorderType
  PROVE  /\ Total \in 0..(Recorder!Terminal + 1)
         /\ \A k \in 1..Total : EventAt(k) \in Recorder!Events
         /\ \A k, l \in 1..Total : EventAt(k) = EventAt(l) => k = l
         /\ recorder.active /\ recorder.next = 0 => Total = 0
<1>. USE DEF RecorderStates, Executions
<1>1. /\ recorder.next \in 0..Recorder!Terminal
      /\ recorder.terminal \in -1..(MaxCycles - 1)
      /\ Recorder!Terminal \in Nat \ {0}
      /\ MaxCycles \in Nat
  BY PoolSize DEF RecorderType
<1>2. Total \in 0..(Recorder!Terminal + 1)
  BY <1>1 DEF Total
<1>3. ASSUME NEW k \in 1..Total PROVE EventAt(k) \in Recorder!Events
  BY <1>1, <1>2, PoolSize DEF Total, EventAt, Recorder!Events
<1>4. ASSUME NEW k \in 1..Total, NEW l \in 1..Total, EventAt(k) = EventAt(l) PROVE k = l
  BY <1>1, <1>2, <1>4 DEF Total, EventAt
<1>5. recorder.active /\ recorder.next = 0 => Total = 0
  BY <1>1 DEF Total, RecorderType
<1>. QED BY <1>2, <1>3, <1>4, <1>5

\* The invariant holds when the pool has been recorded once.
LEMMA RecorderInit == Recorder!Init => RecorderIInv
<1>. SUFFICES ASSUME Recorder!Init PROVE RecorderIInv
  OBVIOUS
<1>. USE PoolSize DEF RecorderStates, Executions
<1>1. RecorderType
  <2>1. <<>> \in Seq(Rows)
    OBVIOUS
  <2>. QED BY <2>1 DEF Recorder!Init, RecorderType, Recorder!Idle
<1>2. Total = Recorder!Terminal + 1 /\ ~recorder.active
  BY DEF Recorder!Init, Total, Recorder!Idle
<1>3. Recorder!Warm \in Recorder!Marks
  BY DEF Recorder!Warm, Recorder!Marks
<1>4. stream \in Seq(Records) /\ Len(stream) = Recorder!Terminal + 1
  <2>1. \A k \in 1..(Recorder!Terminal + 1) :
          [event |-> k - 1, mark |-> Recorder!Warm] \in Records
    BY <1>3 DEF Records, Recorder!Events
  <2>2. Recorder!Terminal + 1 \in Nat
    OBVIOUS
  <2>. QED BY <2>1, <2>2 DEF Recorder!Init
<1>5. StreamIsSuffix
  <2>1. Done = 0
    BY <1>2, <1>4 DEF Done
  <2>2. ASSUME NEW i \in 1..Len(stream)
        PROVE  stream[i] = [event |-> EventAt(Done + i), mark |-> MarkAt(Done + i)]
    <3>1. Done + i = i /\ i \in 1..(Recorder!Terminal + 1)
      BY <1>4, <2>1
    <3>2. EventAt(i) = i - 1 /\ MarkAt(i) = Recorder!Warm
      BY <1>2 DEF EventAt, MarkAt
    <3>3. stream[i] = [event |-> i - 1, mark |-> Recorder!Warm]
      BY <3>1 DEF Recorder!Init
    <3>. QED BY <3>1, <3>2, <3>3
  <2>3. Len(stream) <= Total
    BY <1>2, <1>4
  <2>. QED BY <1>4, <2>2, <2>3 DEF StreamIsSuffix
<1>6. \A e \in Recorder!Events : Pending(e)
  <2>. SUFFICES ASSUME NEW e \in Recorder!Events PROVE Pending(e)
    OBVIOUS
  <2>1. e + 1 \in 1..Len(stream) /\ (e + 1) - 1 = e
    BY <1>4 DEF Recorder!Events
  <2>2. stream[e + 1].event = e
    BY <2>1, <1>4 DEF Recorder!Init
  <2>. QED BY <2>1, <2>2 DEF Pending
<1>7. GenerationsCount
  BY <1>2, <1>6 DEF Recorder!Init, GenerationsCount
<1>8. ExecutedInOrder
  BY <1>2, <1>3 DEF Recorder!Init, ExecutedInOrder
<1>9. RunnerProgress
  BY DEF Recorder!Init, RunnerProgress
<1>10. Recorder!OnlyBeginRaises /\ Recorder!PacketOfOneCohort
  BY DEF Recorder!Init, Recorder!OnlyBeginRaises, Recorder!PacketOfOneCohort
<1>. QED BY <1>1, <1>5, <1>7, <1>8, <1>9, <1>10 DEF RecorderIInv, DeviceParts

\* The device executes the oldest record: it is no longer pending, and no other record of
\* its event is.
LEMMA ExecuteRecordKeeps == ASSUME RecorderIInv, Recorder!ExecuteRecord PROVE RecorderIInv'
<1>. USE PoolSize DEF RecorderStates, Executions
<1>. DEFINE record == Head(stream)
            e0 == record.event
            n == Len(stream)
<1>1. /\ stream \in Seq(Records) /\ stream # <<>> /\ n \in Nat \ {0} /\ stream' = Tail(stream)
      /\ Len(stream)' = n - 1 /\ \A i \in 1..(n - 1) : stream'[i] = stream[i + 1]
      /\ record = stream[1]
  BY DEF RecorderIInv, DeviceParts, StreamIsSuffix, Recorder!ExecuteRecord
<1>2. /\ recorder' = recorder /\ generation' = generation /\ served' = served /\ pc' = pc
      /\ stage' = stage /\ parked' = parked /\ packets' = packets /\ now' = now + 1
      /\ executed' = [executed EXCEPT ![e0] =
                        [generation |-> @.generation + 1, mark |-> record.mark,
                          time |-> now + 1]]
  BY DEF Recorder!ExecuteRecord, Recorder!cohort
<1>3. /\ RecorderType'
      /\ Total' = Total
      /\ Done' = Done + 1
      /\ Done \in Nat
      /\ Total \in Nat
      /\ Done + 1 <= Total
      /\ \A k : EventAt(k)' = EventAt(k) /\ MarkAt(k)' = MarkAt(k)
  <2>1. RecorderType' /\ Total' = Total /\ \A k : EventAt(k)' = EventAt(k) /\ MarkAt(k)'
          = MarkAt(k)
    BY <1>2 DEF RecorderIInv, DeviceParts, RecorderType, Total, EventAt, MarkAt
  <2>2. Total \in Nat /\ n <= Total
    BY TotalType DEF RecorderIInv, DeviceParts, StreamIsSuffix
  <2>. QED BY <1>1, <2>1, <2>2 DEF Done
<1>4. record = [event |-> EventAt(Done + 1), mark |-> MarkAt(Done + 1)] /\ record \in Records
      /\ e0 = EventAt(Done + 1)
      /\ record.mark = MarkAt(Done + 1)
      /\ e0 \in Recorder!Events
      /\ record.mark \in Recorder!Marks
  BY <1>1 DEF RecorderIInv, DeviceParts, StreamIsSuffix, Records
<1>5. StreamIsSuffix'
  <2>1. stream' \in Seq(Records) /\ Len(stream') <= Total'
    BY <1>1, <1>3 DEF RecorderIInv, DeviceParts, StreamIsSuffix
  <2>2. ASSUME NEW i \in 1..Len(stream')
        PROVE  stream'[i] = [event |-> EventAt(Done + i)', mark |-> MarkAt(Done + i)']
    <3>1. i + 1 \in 1..n /\ Done + (i + 1) = Done' + i /\ i \in 1..(n - 1)
      BY <1>1, <1>3
    <3>2. stream[i + 1] = [event |-> EventAt(Done + (i + 1)), mark |-> MarkAt(Done + (i + 1))]
      BY <3>1 DEF RecorderIInv, DeviceParts, StreamIsSuffix
    <3>. QED BY <3>1, <3>2, <1>1, <1>3
  <2>. QED BY <2>1, <2>2 DEF StreamIsSuffix
<1>6. ASSUME NEW e \in Recorder!Events
      PROVE  /\ e = e0 => Pending(e) /\ ~Pending(e)'
             /\ e # e0 => (Pending(e)' <=> Pending(e))
  <2>1. CASE e = e0
    <3>1. Pending(e)
      BY <1>1, <2>1 DEF Pending
    <3>2. ASSUME NEW i \in 1..(n - 1), stream'[i].event = e PROVE FALSE
      <4>1. i + 1 \in 1..n /\ stream[i + 1].event = EventAt(Done + (i + 1))
        BY <1>1 DEF RecorderIInv, DeviceParts, StreamIsSuffix
      <4>2. Done + (i + 1) \in 1..Total /\ Done + 1 \in 1..Total
        BY <1>1, <1>3 DEF Done
      <4>3. EventAt(Done + (i + 1)) = EventAt(Done + 1)
        BY <1>1, <1>4, <2>1, <3>2, <4>1
      <4>4. Done + (i + 1) = Done + 1
        BY <4>2, <4>3, TotalType DEF RecorderIInv, DeviceParts
      <4>. QED BY <4>4, <1>1, <1>3
    <3>. QED BY <2>1, <3>1, <3>2, <1>1 DEF Pending
  <2>2. CASE e # e0
    <3>1. ASSUME NEW i \in 1..n, stream[i].event = e PROVE Pending(e)'
      <4>1. i # 1
        BY <1>1, <2>2, <3>1
      <4>2. i - 1 \in 1..(n - 1) /\ stream'[i - 1] = stream[(i - 1) + 1] /\ (i - 1) + 1 = i
        BY <1>1, <4>1
      <4>. QED BY <1>1, <3>1, <4>2 DEF Pending
    <3>2. ASSUME NEW i \in 1..(n - 1), stream'[i].event = e PROVE Pending(e)
      <4>1. i + 1 \in 1..n /\ stream'[i] = stream[i + 1]
        BY <1>1
      <4>. QED BY <3>2, <4>1 DEF Pending
    <3>. QED BY <2>2, <3>1, <3>2, <1>1 DEF Pending
  <2>. QED BY <2>1, <2>2
<1>0. ASSUME NEW e \in Recorder!Events
      PROVE  /\ executed[e].generation \in 0..(Cohorts + 1)
             /\ executed[e].mark \in Recorder!Marks
             /\ executed[e].time \in 0..now
             /\ executed[e] \in Executions
  <2>1. executed[e] \in Executions
    BY DEF RecorderIInv, DeviceParts, ExecutedInOrder
  <2>. QED BY <2>1
<1>7. ASSUME NEW e \in Recorder!Events
      PROVE  /\ e = e0 => executed'[e]
                  = [generation |-> executed[e].generation + 1, mark |-> MarkAt(Done + 1),
                                          time |-> now + 1]
             /\ e # e0 => executed'[e] = executed[e]
             /\ generation[e] \in 1..(Cohorts + 1)
  BY <1>2, <1>4 DEF RecorderIInv, DeviceParts, ExecutedInOrder, GenerationsCount
<1>. HIDE DEF record, e0
<1>12. /\ executed'[e0].generation = executed[e0].generation + 1
       /\ executed'[e0].mark = MarkAt(Done + 1) /\ executed'[e0].time = now + 1
  <2>1. \A g, m, t : [generation |-> g, mark |-> m, time |-> t].generation = g
                     /\ [generation |-> g, mark |-> m, time |-> t].mark = m
                     /\ [generation |-> g, mark |-> m, time |-> t].time = t
    OBVIOUS
  <2>2. executed'[e0]
          = [generation |-> executed[e0].generation + 1, mark |-> MarkAt(Done + 1),
            time |-> now + 1]
    BY <1>4, <1>7
  <2>. QED BY <2>1, <2>2
<1>8. GenerationsCount'
  <2>1. ASSUME NEW e \in Recorder!Events
        PROVE  generation'[e] = executed'[e].generation + (IF Pending(e)' THEN 1 ELSE 0)
    <3>1. generation[e] = executed[e].generation + (IF Pending(e) THEN 1 ELSE 0)
      BY DEF RecorderIInv, DeviceParts, GenerationsCount
    <3>2. executed[e].generation \in Nat
      <4>. HIDE DEF RecorderStates, Executions
      <4>1. executed[e].generation \in 0..(Cohorts + 1)
        BY <1>0
      <4>. QED BY <4>1
    <3>3. CASE e = e0
      <4>1. executed'[e].generation = executed[e].generation + 1
        BY <3>3, <1>12
      <4>. QED BY <4>1, <3>1, <3>2, <3>3, <1>2, <1>6
    <3>4. CASE e # e0
      BY <3>4, <1>2, <1>6, <1>7, <3>1
    <3>. QED BY <3>3, <3>4
  <2>. QED BY <1>2, <1>3, <2>1 DEF RecorderIInv, DeviceParts, GenerationsCount
<1>9. ExecutedInOrder'
  <2>1. now \in Nat /\ now' \in Nat
    BY <1>2 DEF RecorderIInv, DeviceParts, ExecutedInOrder
  <2>2. ASSUME NEW e \in Recorder!Events PROVE executed'[e] \in Executions'
    <3>1. CASE e = e0
      <4>1. executed[e].generation + 1 \in 0..(Cohorts + 1)
        <5>1. generation[e] = executed[e].generation + 1 /\ executed[e].generation \in Nat
          BY <1>0, <1>6, <3>1 DEF RecorderIInv, DeviceParts, GenerationsCount
        <5>2. generation[e] \in 1..(Cohorts + 1)
          BY <1>7
        <5>. QED BY <5>1, <5>2
      <4>2. executed'[e]
              = [generation |-> executed[e].generation + 1, mark |-> MarkAt(Done + 1),
                time |-> now + 1]
        BY <3>1, <1>7
      <4>3. MarkAt(Done + 1) \in Recorder!Marks /\ now + 1 \in 0..now'
        BY <1>2, <1>4, <2>1
      <4>. QED BY <4>1, <4>2, <4>3
    <3>2. CASE e # e0
      <4>1. executed'[e] = executed[e] /\ executed[e].time \in 0..now'
        <5>. HIDE DEF RecorderStates, Executions
        <5>1. executed'[e] = executed[e] /\ executed[e].time \in 0..now
          BY <1>0, <1>7, <3>2
        <5>. QED BY <5>1, <1>2, <2>1
      <4>. QED BY <1>0, <4>1
    <3>. QED BY <3>1, <3>2
  <2>3. executed' \in [Recorder!Events -> Executions']
    <3>1. executed' = [e \in Recorder!Events |-> executed'[e]]
      BY <1>2 DEF RecorderIInv, DeviceParts, ExecutedInOrder
    <3>. QED BY <3>1, <2>2
  <2>4. ASSUME NEW k \in 1..Done
        PROVE  EventAt(k) \in Recorder!Events /\ EventAt(k) # e0 /\ executed'[EventAt(k)]
                 = executed[EventAt(k)]
    <3>1. k \in 1..Total /\ Done + 1 \in 1..Total /\ k # Done + 1
      BY <1>3
    <3>2. EventAt(k) \in Recorder!Events /\ EventAt(k) # EventAt(Done + 1)
      BY <3>1, TotalType DEF RecorderIInv, DeviceParts
    <3>. QED BY <3>2, <1>4, <1>7
  <2>5. ASSUME recorder.active, NEW k \in 1..(Done + 1)
        PROVE  executed'[EventAt(k)].mark = MarkAt(k)
    <3>1. CASE k = Done + 1
      <4>1. executed'[e0].mark = MarkAt(Done + 1) /\ EventAt(k) = e0
        BY <3>1, <1>4, <1>12
      <4>. QED BY <3>1, <4>1
    <3>2. CASE k # Done + 1
      <4>1. k \in 1..Done
        BY <3>2, <1>3
      <4>. QED BY <4>1, <2>4, <2>5 DEF RecorderIInv, DeviceParts, ExecutedInOrder
    <3>. QED BY <3>1, <3>2
  <2>6. ASSUME recorder.active, NEW k \in 1..Done
        PROVE  executed'[EventAt(k)].time < executed'[EventAt(k + 1)].time
    <3>1. CASE k = Done
      <4>1. executed'[EventAt(k)] = executed[EventAt(k)] /\ EventAt(k) \in Recorder!Events
        BY <2>4
      <4>2. executed[EventAt(k)].time \in 0..now
        BY <4>1, <1>0
      <4>3. executed'[EventAt(k + 1)].time = now + 1
        <5>1. executed'[e0].time = now + 1 /\ EventAt(k + 1) = e0
          BY <3>1, <1>4, <1>12
        <5>. QED BY <5>1
      <4>. QED BY <4>1, <4>2, <4>3, <2>1
    <3>2. CASE k # Done
      <4>1. k \in 1..(Done - 1) /\ k + 1 \in 1..Done
        BY <3>2, <1>3
      <4>. QED BY <4>1, <2>4, <2>6 DEF RecorderIInv, DeviceParts, ExecutedInOrder
    <3>. QED BY <3>1, <3>2
  <2>7. Done' - 1 = Done
    BY <1>3
  <2>. QED BY <1>2, <1>3, <2>1, <2>3, <2>5, <2>6, <2>7 DEF ExecutedInOrder
<1>10. RunnerProgress'
  BY <1>1, <1>2 DEF RecorderIInv, RunnerProgress
<1>11. Recorder!OnlyBeginRaises' /\ Recorder!PacketOfOneCohort'
  BY <1>2 DEF RecorderIInv, Recorder!OnlyBeginRaises, Recorder!PacketOfOneCohort
<1>. QED BY <1>3, <1>5, <1>8, <1>9, <1>10, <1>11 DEF RecorderIInv, DeviceParts

\* Recording an event that the cohort has not recorded yet.
LEMMA AppendKeeps ==
  ASSUME DeviceParts, recorder.active, NEW e \in Recorder!Events, Recorder!Record(e),
           RecorderType', recorder'.active,
         recorder'.cohort = recorder.cohort, recorder.cohort = served, served' = served,
         stage \in 0..(MaxCycles - 1), NEW n, n = Total, Total' = n + 1,
         \A k \in 1..n : EventAt(k)' = EventAt(k) /\ MarkAt(k)' = MarkAt(k) /\ EventAt(k) # e,
         EventAt(n + 1)' = e, MarkAt(n + 1)' = [cohort |-> served, cycle |-> stage]
  PROVE  DeviceParts'
<1>. USE PoolSize DEF RecorderStates, Executions
<1>. DEFINE m == Len(stream)
            last == [event |-> e, mark |-> [cohort |-> served, cycle |-> stage]]
<1>1. /\ stream \in Seq(Records)
      /\ m \in Nat
      /\ n \in Nat
      /\ m <= n
      /\ served \in 0..Cohorts
      /\ Done = n - m
  <2>1. recorder.cohort \in 0..Cohorts
    BY DEF DeviceParts, RecorderType
  <2>. QED BY <2>1, TotalType DEF DeviceParts, StreamIsSuffix, Done
<1>2. last \in Records
  BY <1>1 DEF Records, Recorder!Marks
<1>3. /\ stream' = Append(stream, last) /\ stream' \in Seq(Records) /\ Len(stream') = m + 1
      /\ \A i \in 1..m : stream'[i] = stream[i]
      /\ stream'[m + 1] = last
      /\ generation' = [generation EXCEPT ![e] = @ + 1] /\ executed' = executed /\ now' = now
  <2>1. stream' = Append(stream, last)
    BY DEF Recorder!Record
  <2>. HIDE DEF last
  <2>2. /\ stream' \in Seq(Records) /\ Len(stream') = m + 1
        /\ \A i \in 1..m : stream'[i] = stream[i]
        /\ stream'[m + 1] = last
    BY <1>1, <1>2, <2>1
  <2>. QED BY <2>1, <2>2 DEF Recorder!Record
<1>4. Done' = Done
  BY <1>1, <1>3 DEF Done
<1>5. StreamIsSuffix'
  <2>1. ASSUME NEW i \in 1..(m + 1)
        PROVE  stream'[i] = [event |-> EventAt(Done + i)', mark |-> MarkAt(Done + i)']
    <3>1. CASE i = m + 1
      <4>1. Done + i = n + 1 /\ Done' + i = n + 1
        BY <1>1, <1>4, <3>1
      <4>. QED BY <4>1, <1>3, <3>1
    <3>2. CASE i # m + 1
      <4>1. i \in 1..m
        BY <1>1, <3>2
      <4>0. Done + i \in 1..n
        BY <1>1, <4>1
      <4>2. PICK j \in 1..n : j = Done + i
        BY <4>0
      <4>3. stream[i] = [event |-> EventAt(j), mark |-> MarkAt(j)]
        BY <4>1, <4>2 DEF DeviceParts, StreamIsSuffix
      <4>4. EventAt(j)' = EventAt(j) /\ MarkAt(j)' = MarkAt(j) /\ Done' + i = j
        BY <1>4, <4>2
      <4>. QED BY <4>1, <4>3, <4>4, <1>3
    <3>. QED BY <3>1, <3>2
  <2>. QED BY <1>1, <1>3, <1>4, <2>1 DEF StreamIsSuffix
<1>6. ASSUME NEW d \in Recorder!Events
      PROVE  /\ d = e => ~Pending(d) /\ Pending(d)'
             /\ d # e => (Pending(d)' <=> Pending(d))
  <2>1. ASSUME NEW i \in 1..m PROVE stream[i].event # e
    <3>0. stream[i] = [event |-> EventAt(Done + i), mark |-> MarkAt(Done + i)]
      BY <1>1 DEF DeviceParts, StreamIsSuffix
    <3>1. stream[i].event = EventAt(Done + i)
      BY <3>0
    <3>2. Done + i \in 1..n
      BY <1>1
    <3>. QED BY <3>1, <3>2
  <2>2. stream'[m + 1].event = e
    BY <1>3
  <2>. HIDE DEF last
  <2>3. CASE d = e
    <3>1. ~Pending(d)
      BY <2>1, <2>3 DEF Pending
    <3>2. m + 1 \in 1..Len(stream')
      BY <1>1, <1>3
    <3>. QED BY <2>2, <2>3, <3>1, <3>2 DEF Pending
  <2>4. CASE d # e
    <3>1. ASSUME NEW i \in 1..m PROVE i \in 1..Len(stream') /\ stream'[i] = stream[i]
      BY <1>1, <1>3
    <3>2. ASSUME NEW i \in 1..Len(stream'), stream'[i].event = d PROVE i \in 1..m
      BY <1>1, <1>3, <2>2, <2>4, <3>2
    <3>. QED BY <2>4, <3>1, <3>2 DEF Pending
  <2>. QED BY <2>3, <2>4
<1>7. GenerationsCount'
  <2>1. ASSUME NEW d \in Recorder!Events
        PROVE  /\ generation[d] \in 1..(Cohorts + 1)
               /\ executed[d].generation \in 0..(Cohorts + 1)
               /\ generation[d] = executed[d].generation + (IF Pending(d) THEN 1 ELSE 0)
               /\ generation[d] <= served + (IF \E k \in 1..n : EventAt(k) = d THEN 1 ELSE 0)
               /\ d = e => generation'[d] = generation[d] + 1
               /\ d # e => generation'[d] = generation[d]
    <3>1. executed[d] \in Executions
      BY DEF DeviceParts, ExecutedInOrder
    <3>. QED BY <1>3, <3>1 DEF DeviceParts, GenerationsCount
  <2>2. generation' \in [Recorder!Events -> 1..(Cohorts + 1)]
    <3>1. generation[e] + 1 \in 1..(Cohorts + 1)
      <4>1. generation[e] <= served
        <5>1. ~\E k \in 1..n : EventAt(k) = e
          OBVIOUS
        <5>. QED BY <5>1, <2>1, <1>1
      <4>. QED BY <4>1, <2>1, <1>1
    <3>. QED BY <3>1, <1>3 DEF DeviceParts, GenerationsCount
  <2>3. ASSUME NEW d \in Recorder!Events
        PROVE  generation'[d] = executed'[d].generation + (IF Pending(d)' THEN 1 ELSE 0)
    <3>1. CASE d = e
      <4>1. ~Pending(d) /\ Pending(d)'
        BY <3>1, <1>6
      <4>2. generation[d] = executed[d].generation
        BY <4>1, <2>1
      <4>3. generation'[d] = generation[d] + 1 /\ executed'[d] = executed[d]
        BY <3>1, <2>1, <1>3
      <4>. QED BY <4>1, <4>2, <4>3
    <3>2. CASE d # e
      BY <3>2, <2>1, <1>6, <1>3
    <3>. QED BY <3>1, <3>2
  <2>4. ASSUME NEW d \in Recorder!Events
        PROVE  generation'[d] <= served + (IF \E k \in 1..(n + 1) : EventAt(k)' = d THEN 1
                   ELSE 0)
    <3>1. CASE d = e
      <4>1. n + 1 \in 1..(n + 1) /\ EventAt(n + 1)' = d
        BY <3>1, <1>1
      <4>2. generation'[d] <= served + 1
        BY <3>1, <2>1, <1>1
      <4>. QED BY <4>1, <4>2
    <3>2. CASE d # e
      <4>1. (\E k \in 1..n : EventAt(k) = d) => \E k \in 1..(n + 1) : EventAt(k)' = d
        <5>. SUFFICES ASSUME NEW k \in 1..n, EventAt(k) = d
                      PROVE  \E j \in 1..(n + 1) : EventAt(j)' = d
          OBVIOUS
        <5>1. k \in 1..(n + 1) /\ EventAt(k)' = d
          BY <1>1
        <5>. QED BY <5>1
      <4>. QED BY <4>1, <3>2, <2>1, <1>1
    <3>. QED BY <3>1, <3>2
  <2>5. \A d \in Recorder!Events : recorder'.active =>
          generation'[d] <= recorder'.cohort + (IF \E k \in 1..Total' : EventAt(k)' = d
              THEN 1 ELSE 0)
    BY <2>4
  <2>. QED BY <2>2, <2>3, <2>5 DEF GenerationsCount
<1>8. ExecutedInOrder'
  <2>1. ASSUME NEW k \in 1..Done PROVE executed'[EventAt(k)'].mark = MarkAt(k)'
    <3>1. k \in 1..n
      BY <1>1
    <3>. QED BY <3>1, <1>3 DEF DeviceParts, ExecutedInOrder
  <2>2. ASSUME NEW k \in 1..(Done - 1)
        PROVE  executed'[EventAt(k)'].time < executed'[EventAt(k + 1)'].time
    <3>1. k \in 1..n /\ k + 1 \in 1..n
      BY <1>1
    <3>. QED BY <3>1, <1>3 DEF DeviceParts, ExecutedInOrder
  <2>. QED BY <1>3, <1>4, <2>1, <2>2 DEF DeviceParts, ExecutedInOrder
<1>. QED BY <1>5, <1>7, <1>8 DEF DeviceParts

\* A step that leaves the stream and the recorder's place alone.
LEMMA DeviceRests ==
  ASSUME DeviceParts, UNCHANGED Recorder!device, RecorderType', served' \in Nat,
           served \in Nat, served <= served',
         recorder'.active = recorder.active, recorder'.cohort = recorder.cohort,
         recorder'.next = recorder.next, recorder'.terminal = recorder.terminal
  PROVE  DeviceParts'
<1>. USE PoolSize DEF RecorderStates, Executions
<1>1. /\ stream' = stream /\ generation' = generation /\ executed' = executed /\ now' = now
  BY DEF Recorder!device
<1>2. Total' = Total /\ \A k : EventAt(k)' = EventAt(k) /\ MarkAt(k)' = MarkAt(k)
  BY DEF Total, EventAt, MarkAt
<1>3. Done' = Done /\ \A e : Pending(e)' <=> Pending(e)
  BY <1>1, <1>2 DEF Done, Pending
<1>4. StreamIsSuffix'
  BY <1>1, <1>2, <1>3 DEF DeviceParts, StreamIsSuffix
<1>5. GenerationsCount'
  <2>1. ASSUME NEW e \in Recorder!Events, ~recorder.active PROVE generation[e] <= served' + 1
    BY <2>1 DEF DeviceParts, GenerationsCount
  <2>. QED BY <1>1, <1>2, <1>3, <2>1 DEF DeviceParts, GenerationsCount
<1>6. ExecutedInOrder'
  BY <1>1, <1>2, <1>3 DEF DeviceParts, ExecutedInOrder
<1>. QED BY <1>4, <1>5, <1>6 DEF DeviceParts

\* A step that leaves the recorder alone.
LEMMA RecorderRests ==
  ASSUME RecorderIInv, UNCHANGED <<Recorder!device, recorder, packets>>,
           served' \in 0..Cohorts, served <= served'
  PROVE  DeviceParts' /\ Recorder!PacketOfOneCohort'
<1>. USE DEF RecorderStates, Executions
<1>1. served \in Nat /\ served' \in Nat /\ Cohorts \in Nat /\ WarmCohorts \in Nat
  BY PoolSize DEF RecorderIInv, RunnerProgress
<1>2. RecorderType'
  BY <1>1 DEF RecorderIInv, DeviceParts, RecorderType
<1>3. DeviceParts'
  BY <1>1, <1>2, DeviceRests DEF RecorderIInv
<1>. QED BY <1>3 DEF RecorderIInv, Recorder!PacketOfOneCohort

\* A cohort that is not observed leaves the recorder a cohort behind.
LEMMA ServeUnobservedKeeps == ASSUME RecorderIInv, Recorder!ServeUnobserved PROVE RecorderIInv'
<1>1. /\ served' \in 0..Cohorts
      /\ served <= served'
      /\ UNCHANGED <<Recorder!device, recorder, packets>>
  BY PoolSize DEF Recorder!ServeUnobserved, RecorderIInv, RunnerProgress
<1>2. DeviceParts' /\ Recorder!PacketOfOneCohort'
  BY <1>1, RecorderRests
<1>3. RunnerProgress' /\ Recorder!OnlyBeginRaises'
  BY <1>1
     DEF Recorder!ServeUnobserved, RecorderIInv, RunnerProgress, Recorder!OnlyBeginRaises
<1>. QED BY <1>2, <1>3 DEF RecorderIInv

\* A cohort that may begin finds an empty stream, because the last event of the pool is
\* executed; one that may not is another cohort than the recorder's.
LEMMA BeginCohortKeeps == ASSUME RecorderIInv, Recorder!BeginCohort PROVE RecorderIInv'
<1>. USE PoolSize DEF RecorderStates, Executions
<1>1. served' = served + 1 /\ served' \in 0..Cohorts /\ served \in Nat
  BY DEF Recorder!BeginCohort, RecorderIInv, RunnerProgress
<1>2. CASE ~Recorder!MayBegin(served + 1) /\ Recorder!Raise
  <2>1. /\ UNCHANGED <<Recorder!device, recorder, packets>>
        /\ pc' = "raised"
        /\ stage' = stage
        /\ parked' = parked
    BY <1>2 DEF Recorder!Raise
  <2>2. DeviceParts' /\ Recorder!PacketOfOneCohort'
    BY <1>1, <2>1, RecorderRests
  <2>3. recorder.active => recorder.cohort # served'
    BY <1>1 DEF RecorderIInv, DeviceParts, RecorderType
  <2>. QED BY <1>1, <2>1, <2>2, <2>3
              DEF RecorderIInv, RunnerProgress, Recorder!OnlyBeginRaises
<1>3. CASE /\ Recorder!MayBegin(served + 1)
           /\ recorder' = [Recorder!Idle EXCEPT !.active = TRUE, !.cohort = served + 1]
           /\ pc' = "step" /\ stage' = 0 /\ parked' = 0
           /\ UNCHANGED <<Recorder!device, packets>>
  <2>1. recorder'
          = [active |-> TRUE, cohort |-> served + 1, next |-> 0, terminal |-> -1,
            classes |-> <<>>]
    BY <1>3 DEF Recorder!Idle
  <2>2. RecorderType'
    <3>1. served + 1 \in WarmCohorts..Cohorts
      <4>1. recorder.cohort \in WarmCohorts..Cohorts
        BY DEF RecorderIInv, DeviceParts, RecorderType
      <4>. QED BY <4>1, <1>1, <1>3 DEF Recorder!MayBegin
    <3>2. <<>> \in Seq(Rows)
      OBVIOUS
    <3>. QED BY <1>1, <2>1, <3>1, <3>2 DEF RecorderType
  <2>3. stream = <<>> /\ ~recorder.active
    <3>1. ~recorder.active /\ Recorder!Query(Recorder!Terminal) /\ Total = Recorder!Terminal + 1
      BY <1>3 DEF Recorder!MayBegin, Total
    <3>2. ~Pending(Recorder!Terminal)
      <4>1. executed[Recorder!Terminal] \in Executions
        BY DEF RecorderIInv, DeviceParts, ExecutedInOrder
      <4>. QED BY <3>1, <4>1 DEF Recorder!Query, RecorderIInv, DeviceParts, GenerationsCount
    <3>3. SUFFICES ASSUME stream # <<>> PROVE FALSE
      BY <3>1
    <3>4. Len(stream) \in Nat \ {0} /\ Len(stream) <= Total
      BY <3>3 DEF RecorderIInv, DeviceParts, StreamIsSuffix
    <3>5. Len(stream) \in 1..Len(stream) /\ Done + Len(stream) = Recorder!Terminal + 1
      BY <3>1, <3>4 DEF Done
    <3>6. EventAt(Recorder!Terminal + 1) = Recorder!Terminal
      BY <3>1 DEF EventAt
    <3>7. stream[Len(stream)].event = Recorder!Terminal
      <4>0. stream[Len(stream)]
              = [event |-> EventAt(Done + Len(stream)), mark |-> MarkAt(Done + Len(stream))]
        BY <3>5 DEF RecorderIInv, DeviceParts, StreamIsSuffix
      <4>1. stream[Len(stream)].event = EventAt(Done + Len(stream))
        BY <4>0
      <4>. QED BY <4>1, <3>5, <3>6
    <3>. QED BY <3>2, <3>5, <3>7 DEF Pending
  <2>4. /\ stream' = <<>>
        /\ Len(stream') = 0
        /\ generation' = generation
        /\ executed' = executed
        /\ now' = now
    BY <1>3, <2>3 DEF Recorder!device
  <2>5. Total' = 0 /\ Done' = 0
    BY <2>1, <2>4 DEF Total, Done
  <2>6. StreamIsSuffix'
    BY <2>4, <2>5 DEF StreamIsSuffix
  <2>7. GenerationsCount'
    <3>1. \A e : ~Pending(e)'
      BY <2>4 DEF Pending
    <3>2. \A e : ~Pending(e)
      BY <2>3 DEF Pending
    <3>3. ASSUME NEW e \in Recorder!Events
          PROVE  generation'[e] <= recorder'.cohort + (IF \E k \in 1..Total' : EventAt(k)' = e THEN 1 ELSE 0)
      <4>1. generation[e] <= served + 1 /\ generation[e] \in 1..(Cohorts + 1)
        BY <2>3 DEF RecorderIInv, DeviceParts, GenerationsCount
      <4>2. ~\E k \in 1..Total' : EventAt(k)' = e
        BY <2>5
      <4>. QED BY <4>1, <4>2, <2>1, <2>4, <1>1
    <3>. QED BY <2>1, <2>4, <3>1, <3>2, <3>3 DEF RecorderIInv, DeviceParts, GenerationsCount
  <2>8. ExecutedInOrder'
    BY <2>4, <2>5 DEF RecorderIInv, DeviceParts, ExecutedInOrder
  <2>9. RunnerProgress'
    <3>1. recorder'.classes = <<>> /\ Len(recorder'.classes) = 0 /\ recorder'.next = 0
          /\ recorder'.active /\ recorder'.cohort = served' /\ recorder'.terminal = -1
      BY <1>1, <2>1
    <3>2. pc' = "step" /\ stage' = 0 /\ parked' = 0
      BY <1>3
    <3>. QED BY <1>1, <3>1, <3>2 DEF RunnerProgress
  <2>. QED BY <1>3, <2>2, <2>6, <2>7, <2>8, <2>9
              DEF RecorderIInv, DeviceParts, Recorder!OnlyBeginRaises,
                  Recorder!PacketOfOneCohort
<1>. QED BY <1>2, <1>3 DEF Recorder!BeginCohort

\* A mark is always in order.
LEMMA MarkKeeps == ASSUME RecorderIInv, Recorder!Mark PROVE RecorderIInv'
<1>. USE PoolSize DEF RecorderStates, Executions
<1>1. /\ recorder.active /\ recorder.cohort = served /\ recorder.terminal = -1
      /\ recorder.next - 5 * stage \in 0..4 /\ pc = "step" /\ served' = served
      /\ stage \in 0..(MaxCycles - 1) /\ served \in 0..Cohorts
      /\ recorder \in RecorderStates
  BY DEF Recorder!Mark, RecorderIInv, RunnerProgress, DeviceParts, RecorderType
<1>2. Recorder!InOrder /\ Recorder!Stage \in 0..4 /\ Recorder!Stage = recorder.next - 5 * stage
  BY <1>1 DEF Recorder!InOrder, Recorder!Stage
<1>3. /\ Recorder!Record(recorder.next) /\ recorder' = [recorder EXCEPT !.next = @ + 1]
      /\ pc' = IF Recorder!Stage = Len(Recorder!LABELS) - 1 THEN "parking" ELSE "step"
      /\ stage' = stage /\ parked' = parked /\ packets' = packets
  BY <1>2 DEF Recorder!Mark
<1>4. recorder.next \in Nat /\ recorder.next < Recorder!Terminal /\ recorder.next \div 5 = stage
  <2>1. /\ recorder.next \in Nat
        /\ stage \in Nat
        /\ stage <= MaxCycles - 1
        /\ recorder.next - 5 * stage \in 0..4
    BY <1>1
  <2>2. recorder.next \div 5 = stage
    BY <2>1, DivideByFive
  <2>3. recorder.next < Recorder!Terminal
    BY <2>1
  <2>. QED BY <2>1, <2>2, <2>3
<1>5. /\ recorder' \in RecorderStates
      /\ recorder'.next = recorder.next + 1 /\ recorder'.active = recorder.active
      /\ recorder'.cohort = recorder.cohort /\ recorder'.terminal = recorder.terminal
      /\ recorder'.classes = recorder.classes
  <2>1. recorder.next + 1 \in 0..Recorder!Terminal
    BY <1>4
  <2>. QED BY <1>1, <1>3, <2>1
<1>6. RecorderType'
  BY <1>1, <1>5 DEF RecorderType
<1>7. DeviceParts'
  <2>0. PICK n \in Nat : n = recorder.next
    BY <1>4
  <2>1. n = Total /\ Total' = n + 1
    BY <1>1, <1>5, <2>0 DEF Total
  <2>2. ASSUME NEW k \in 1..n
        PROVE  EventAt(k)' = EventAt(k) /\ MarkAt(k)' = MarkAt(k) /\ EventAt(k) # n
    <3>1. k # n + 1 /\ k # (n + 1) + 1 /\ k - 1 # n
      OBVIOUS
    <3>2. recorder'.next + 1 = (n + 1) + 1 /\ recorder.next + 1 = n + 1
      BY <1>5, <2>0
    <3>. QED BY <1>1, <1>5, <3>1, <3>2 DEF EventAt, MarkAt
  <2>3. n + 1 # recorder'.next + 1 /\ (n + 1) - 1 = n /\ n \div 5 = stage
    BY <1>4, <1>5, <2>0
  <2>4. EventAt(n + 1)' = n
    BY <2>3 DEF EventAt
  <2>5. MarkAt(n + 1)' = [cohort |-> served, cycle |-> stage]
    BY <1>1, <1>5, <2>3 DEF MarkAt
  <2>6. n \in Recorder!Events /\ Recorder!Record(n)
    BY <1>3, <1>4, <2>0 DEF Recorder!Events
  <2>. QED BY <1>1, <1>5, <1>6, <2>1, <2>2, <2>4, <2>5, <2>6, AppendKeeps DEF RecorderIInv
<1>8. RunnerProgress'
  <2>1. pc' = "step" => recorder'.next - 5 * stage' \in 0..4
    <3>. SUFFICES ASSUME pc' = "step" PROVE recorder'.next - 5 * stage' \in 0..4
      OBVIOUS
    <3>1. /\ Recorder!Stage # 4
          /\ Recorder!Stage \in 0..4
          /\ Recorder!Stage = recorder.next - 5 * stage
      BY <1>2, <1>3
    <3>2. /\ recorder'.next = recorder.next + 1
          /\ stage' = stage
          /\ recorder.next \in Nat
          /\ stage \in Nat
      BY <1>1, <1>3, <1>4, <1>5
    <3>. HIDE PoolSize
    <3>. QED BY <3>1, <3>2
  <2>2. pc' = "parking" => recorder'.next = 5 * (stage' + 1)
    <3>. SUFFICES ASSUME pc' = "parking" PROVE recorder'.next = 5 * (stage' + 1)
      OBVIOUS
    <3>1. Recorder!Stage = 4 /\ Recorder!Stage = recorder.next - 5 * stage
      BY <1>2, <1>3
    <3>2. /\ recorder'.next = recorder.next + 1
          /\ stage' = stage
          /\ recorder.next \in Nat
          /\ stage \in Nat
      BY <1>1, <1>3, <1>4, <1>5
    <3>. HIDE PoolSize
    <3>. QED BY <3>1, <3>2
  <2>3. pc' \in {"step", "parking"}
    BY <1>3
  <2>. QED BY <1>1, <1>3, <1>5, <2>1, <2>2, <2>3 DEF RecorderIInv, RunnerProgress
<1>9. Recorder!OnlyBeginRaises' /\ Recorder!PacketOfOneCohort'
  BY <1>3 DEF RecorderIInv, Recorder!OnlyBeginRaises, Recorder!PacketOfOneCohort
<1>. QED BY <1>7, <1>8, <1>9 DEF RecorderIInv

\* Within a cohort the recorder is active, for that cohort.
LEMMA ServingFacts ==
  ASSUME RecorderIInv, pc \notin {"waiting", "raised"}
  PROVE  /\ recorder.active /\ recorder.cohort = served /\ served \in 0..Cohorts
         /\ stage \in 0..(MaxCycles - 1) /\ parked \in 0..NumSlots
         /\ recorder \in RecorderStates
         /\ recorder.terminal = IF pc \in {"draining", "exporting"} THEN stage ELSE -1
         /\ Len(recorder.classes) = IF pc \in {"step", "parking"} THEN stage ELSE stage + 1
         /\ pc # "step" => recorder.next = 5 * (stage + 1)
BY DEF RecorderIInv, RunnerProgress, DeviceParts, RecorderType

\* A class row always fits, and continues the ones before it.
LEMMA ClassRowKeeps == ASSUME RecorderIInv, Recorder!ClassRow PROVE RecorderIInv'
<1>. USE PoolSize DEF RecorderStates, Executions
<1>1. /\ recorder.active
      /\ recorder.cohort = served
      /\ recorder.terminal = -1
      /\ served' = served
      /\ recorder.next = 5 * (stage + 1) /\ Len(recorder.classes) = stage
      /\ stage \in 0..(MaxCycles - 1) /\ served \in 0..Cohorts /\ parked \in 0..NumSlots
      /\ recorder \in RecorderStates
  <2>1. pc = "parking" /\ served' = served
    BY DEF Recorder!ClassRow
  <2>. QED BY <2>1, ServingFacts
<1>2. PICK after \in parked..NumSlots :
        /\ stage >= Recorder!LastServedCycle => after = NumSlots
        /\ IF Recorder!ClassFits(after)
           THEN /\ recorder'
             = [recorder EXCEPT !.classes = Append(@, [before |-> parked, after |-> after])]
                /\ parked' = after
                /\ \/ after = NumSlots /\ pc' = "ending" /\ UNCHANGED stage
                   \/ after < NumSlots /\ pc' = "step" /\ stage' = stage + 1
                /\ UNCHANGED <<Recorder!device, packets>>
           ELSE Recorder!Raise
  BY DEF Recorder!ClassRow
<1>3. Recorder!ClassFits(after)
  BY <1>1 DEF Recorder!ClassFits
<1>4. /\ recorder'
           = [recorder EXCEPT !.classes = Append(@, [before |-> parked, after |-> after])]
      /\ parked' = after /\ UNCHANGED Recorder!device /\ packets' = packets
      /\ \/ after = NumSlots /\ pc' = "ending" /\ stage' = stage
         \/ after < NumSlots /\ pc' = "step" /\ stage' = stage + 1
  BY <1>2, <1>3
<1>. DEFINE row == [before |-> parked, after |-> after]
            old == recorder.classes
            new == Append(old, row)
<1>5. row \in Rows /\ row.before = parked /\ row.after = after /\ after \in 0..NumSlots
  BY <1>1, <1>2 DEF Rows
<1>6. old \in Seq(Rows)
  BY <1>1
<1>7. /\ recorder'.classes = new /\ recorder'.active /\ recorder'.cohort = recorder.cohort
      /\ recorder'.active = recorder.active
      /\ recorder'.next = recorder.next /\ recorder'.terminal = recorder.terminal
  BY <1>1, <1>4
<1>. HIDE DEF row, old
<1>8. /\ new \in Seq(Rows) /\ Len(new) = stage + 1 /\ new[stage + 1] = row
      /\ \A i \in 1..stage : new[i] = old[i]
  BY <1>1, <1>5, <1>6 DEF old
<1>9. RecorderType'
  <2>1. recorder' \in RecorderStates
    BY <1>1, <1>4, <1>8 DEF row, old
  <2>. QED BY <1>1, <1>7, <2>1 DEF RecorderType
<1>10. DeviceParts'
  BY <1>1, <1>4, <1>7, <1>9, DeviceRests DEF RecorderIInv
<1>11. /\ new # <<>> /\ new[1].before = 0
       /\ \A c \in 1..(Len(new) - 1) : new[c].after = new[c + 1].before
  <2>1. /\ parked = IF old = <<>> THEN 0 ELSE old[Len(old)].after
        /\ old # <<>> => old[1].before = 0
        /\ \A c \in 1..(Len(old) - 1) : old[c].after = old[c + 1].before
        /\ Len(old) = stage
    BY <1>1 DEF RecorderIInv, RunnerProgress, Recorder!ClassRow, old
  <2>2. new # <<>>
    BY <1>6
  <2>3. CASE stage = 0
    <3>1. old = <<>>
      BY <1>6, <2>1, <2>3, EmptySeq
    <3>. HIDE DEF new
    <3>. QED BY <1>5, <1>8, <2>1, <2>2, <2>3, <3>1
  <2>4. CASE stage # 0
    <3>1. old # <<>> /\ stage \in Nat \ {0} /\ 1 \in 1..stage /\ stage \in 1..stage
      BY <1>1, <2>1, <2>4
    <3>. HIDE DEF new
    <3>2. new[1].before = 0
      BY <1>8, <2>1, <3>1
    <3>3. ASSUME NEW c \in 1..stage PROVE new[c].after = new[c + 1].before
      <4>1. CASE c = stage
        <5>1. new[c] = old[stage] /\ new[c + 1] = row
          BY <1>8, <3>1, <4>1
        <5>2. old[stage].after = parked
          BY <2>1, <3>1
        <5>. QED BY <5>1, <5>2, <1>5
      <4>2. CASE c # stage
        <5>1. c \in 1..stage /\ c + 1 \in 1..stage /\ c \in 1..(stage - 1)
          BY <3>1, <4>2
        <5>. QED BY <5>1, <1>8, <2>1
      <4>. QED BY <4>1, <4>2
    <3>. QED BY <1>8, <2>2, <3>2, <3>3, <3>1
  <2>. QED BY <2>3, <2>4
<1>12. RunnerProgress'
  <2>. HIDE DEF new
  <2>1. new[Len(new)].after = parked'
    BY <1>4, <1>5, <1>8
  <2>2. stage' \in 0..(MaxCycles - 1) /\ parked' \in 0..NumSlots
    <3>1. CASE after = NumSlots /\ stage' = stage
      BY <1>1, <1>4, <1>5, <3>1
    <3>2. CASE after < NumSlots /\ stage' = stage + 1
      <4>1. ~(stage >= Recorder!LastServedCycle)
        <5>1. after # NumSlots
          BY <1>5, <3>2
        <5>. QED BY <5>1, <1>2
      <4>2. stage + 1 \in 0..(MaxCycles - 1)
        BY <1>1, <4>1 DEF Recorder!LastServedCycle
      <4>. QED BY <1>4, <1>5, <3>2, <4>2
    <3>. QED BY <1>4, <3>1, <3>2
  <2>3. CASE after = NumSlots /\ pc' = "ending" /\ stage' = stage
    BY <1>1, <1>4, <1>7, <1>8, <1>11, <2>1, <2>2, <2>3 DEF RunnerProgress
  <2>4. CASE after < NumSlots /\ pc' = "step" /\ stage' = stage + 1
    <3>1. recorder'.next - 5 * stage' \in 0..4
      BY <1>1, <1>7, <2>4
    <3>. QED BY <1>1, <1>4, <1>7, <1>8, <1>11, <2>1, <2>2, <2>4, <3>1 DEF RunnerProgress
  <2>. QED BY <1>4, <2>3, <2>4
<1>13. Recorder!OnlyBeginRaises' /\ Recorder!PacketOfOneCohort'
  BY <1>4 DEF RecorderIInv, Recorder!OnlyBeginRaises, Recorder!PacketOfOneCohort
<1>. QED BY <1>10, <1>12, <1>13 DEF RecorderIInv

\* The terminal event may always be recorded when the last slot is parked.
LEMMA RecordTerminalKeeps == ASSUME RecorderIInv, Recorder!RecordTerminal PROVE RecorderIInv'
<1>. USE PoolSize DEF RecorderStates, Executions
<1>1. /\ recorder.active
      /\ recorder.cohort = served
      /\ recorder.terminal = -1
      /\ served' = served
      /\ recorder.next = 5 * (stage + 1) /\ Len(recorder.classes) = stage + 1
      /\ stage \in 0..(MaxCycles - 1) /\ served \in 0..Cohorts
      /\ recorder \in RecorderStates
  <2>1. pc = "ending" /\ served' = served
    BY DEF Recorder!RecordTerminal
  <2>. QED BY <2>1, ServingFacts
<1>2. Recorder!MayEnd
  BY <1>1 DEF Recorder!MayEnd
<1>3. /\ Recorder!Record(Recorder!Terminal) /\ recorder' = [recorder EXCEPT !.terminal = stage]
      /\ pc' = "draining" /\ stage' = stage /\ parked' = parked /\ packets' = packets
  BY <1>2 DEF Recorder!RecordTerminal
<1>4. /\ recorder' \in RecorderStates
      /\ recorder'.next = recorder.next /\ recorder'.active = recorder.active
      /\ recorder'.cohort = recorder.cohort /\ recorder'.terminal = stage
      /\ recorder'.classes = recorder.classes
  <2>1. stage \in -1..(MaxCycles - 1)
    BY <1>1
  <2>. QED BY <1>1, <1>3, <2>1
<1>5. RecorderType'
  BY <1>1, <1>4 DEF RecorderType
<1>6. DeviceParts'
  <2>1. PICK n \in Nat : n = recorder.next /\ n <= Recorder!Terminal
    BY <1>1
  <2>2. n = Total /\ Total' = n + 1
    BY <1>1, <1>4, <2>1 DEF Total
  <2>3. ASSUME NEW k \in 1..n
        PROVE  EventAt(k)' = EventAt(k) /\ MarkAt(k)' = MarkAt(k)
                   /\ EventAt(k) # Recorder!Terminal
    <3>1. k # n + 1 /\ k - 1 < Recorder!Terminal
      BY <2>1
    <3>2. k # recorder'.next + 1 /\ k # recorder.next + 1
      BY <1>4, <2>1, <3>1
    <3>. QED BY <1>1, <1>4, <3>1, <3>2 DEF EventAt, MarkAt
  <2>4. /\ EventAt(n + 1)' = Recorder!Terminal
        /\ MarkAt(n + 1)' = [cohort |-> served, cycle |-> stage]
    BY <1>1, <1>4, <2>1 DEF EventAt, MarkAt
  <2>. QED BY <1>1, <1>3, <1>4, <1>5, <2>2, <2>3, <2>4, AppendKeeps DEF RecorderIInv
<1>7. RunnerProgress'
  BY <1>1, <1>3, <1>4 DEF RecorderIInv, RunnerProgress, Recorder!RecordTerminal
<1>8. Recorder!OnlyBeginRaises' /\ Recorder!PacketOfOneCohort'
  BY <1>3 DEF RecorderIInv, Recorder!OnlyBeginRaises, Recorder!PacketOfOneCohort
<1>. QED BY <1>6, <1>7, <1>8 DEF RecorderIInv

\* Waiting for the stream changes nothing.
LEMMA DrainKeeps == ASSUME RecorderIInv, Recorder!Drain PROVE RecorderIInv'
<1>1. /\ served' \in 0..Cohorts
      /\ served <= served'
      /\ UNCHANGED <<Recorder!device, recorder, packets>>
  BY PoolSize DEF Recorder!Drain, Recorder!cohort, RecorderIInv, RunnerProgress
<1>2. DeviceParts' /\ Recorder!PacketOfOneCohort'
  BY <1>1, RecorderRests
<1>3. RunnerProgress' /\ Recorder!OnlyBeginRaises'
  BY DEF Recorder!Drain, Recorder!device, Recorder!cohort, RecorderIInv, RunnerProgress,
         Recorder!OnlyBeginRaises
<1>. QED BY <1>2, <1>3 DEF RecorderIInv

\* A cohort that is cut short leaves the recorder active, so no other begins.
LEMMA AbortCohortKeeps == ASSUME RecorderIInv, Recorder!AbortCohort PROVE RecorderIInv'
<1>1. /\ served' \in 0..Cohorts
      /\ served <= served'
      /\ UNCHANGED <<Recorder!device, recorder, packets>>
  BY PoolSize DEF Recorder!AbortCohort, Recorder!cohort, RecorderIInv, RunnerProgress
<1>2. DeviceParts' /\ Recorder!PacketOfOneCohort'
  BY <1>1, RecorderRests
<1>3. RunnerProgress' /\ Recorder!OnlyBeginRaises'
  BY DEF Recorder!AbortCohort, Recorder!cohort, RecorderIInv, RunnerProgress,
         Recorder!OnlyBeginRaises
<1>. QED BY <1>2, <1>3 DEF RecorderIInv

\* After the drain an export is always accepted, and its packet is the cohort's.
LEMMA ExportKeeps == ASSUME RecorderIInv, Recorder!Export PROVE RecorderIInv'
<1>. USE PoolSize DEF RecorderStates, Executions
<1>1. /\ recorder.active
      /\ recorder.cohort = served
      /\ recorder.terminal = stage
      /\ served' = served
      /\ recorder.next = 5 * (stage + 1) /\ Len(recorder.classes) = stage + 1
      /\ stage \in 0..(MaxCycles - 1)
      /\ served \in 0..Cohorts
      /\ stream = <<>>
      /\ pc = "exporting"
      /\ recorder \in RecorderStates
  <2>1. pc = "exporting" /\ served' = served
    BY DEF Recorder!Export
  <2>2. stream = <<>>
    BY <2>1 DEF RecorderIInv, RunnerProgress
  <2>. QED BY <2>1, <2>2, ServingFacts
<1>2. Total = recorder.next + 1 /\ Done = Total /\ Total \in Nat \ {0} /\ recorder.next \in Nat
  BY <1>1 DEF Total, Done
<1>3. /\ DOMAIN Recorder!Used = 1..Total
      /\ \A k \in 1..Total : Recorder!Used[k] = EventAt(k)
                                 /\ Recorder!Used[k] \in Recorder!Events
  <2>1. DOMAIN Recorder!Used = 1..Total
    BY <1>2 DEF Recorder!Used
  <2>2. ASSUME NEW k \in 1..Total PROVE Recorder!Used[k] = EventAt(k)
    BY <1>1, <1>2 DEF Recorder!Used, EventAt
  <2>. QED BY <2>1, <2>2, TotalType DEF RecorderIInv, DeviceParts
<1>4. ASSUME NEW e \in Recorder!Events
      PROVE  Recorder!Query(e) /\ executed[e].time \in 0..now /\ now \in Nat
  <2>1. ~Pending(e)
    BY <1>1 DEF Pending
  <2>2. executed[e] \in Executions /\ now \in Nat
    BY DEF RecorderIInv, DeviceParts, ExecutedInOrder
  <2>3. generation[e] = executed[e].generation + 0
    BY <2>1 DEF RecorderIInv, DeviceParts, GenerationsCount
  <2>. QED BY <2>2, <2>3 DEF Recorder!Query
<1>5. ASSUME NEW k \in 1..recorder.next
      PROVE  executed[Recorder!Used[k]].time < executed[Recorder!Used[k + 1]].time
                 /\ k \in 1..Total /\ k + 1 \in 1..Total
  <2>1. k \in 1..Total /\ k + 1 \in 1..Total /\ k \in 1..(Done - 1)
    BY <1>2
  <2>2. executed[EventAt(k)].time < executed[EventAt(k + 1)].time
    BY <1>1, <2>1 DEF RecorderIInv, DeviceParts, ExecutedInOrder
  <2>. QED BY <1>3, <2>1, <2>2
<1>6. Recorder!MayExport
  <2>1. \A k \in DOMAIN Recorder!Used : Recorder!Query(Recorder!Used[k])
    BY <1>3, <1>4
  <2>2. ASSUME NEW k \in 1..recorder.next
        PROVE  executed[Recorder!Used[k]].time <= executed[Recorder!Used[k + 1]].time
    <3>1. Recorder!Used[k] \in Recorder!Events /\ Recorder!Used[k + 1] \in Recorder!Events
      BY <1>3, <1>5
    <3>2. /\ executed[Recorder!Used[k]].time \in 0..now
          /\ executed[Recorder!Used[k + 1]].time \in 0..now
          /\ now \in Nat
      BY <1>4, <3>1
    <3>. QED BY <1>5, <3>2
  <2>. QED BY <1>1, <2>1, <2>2 DEF Recorder!MayExport
<1>7. /\ packets' = packets \union {Recorder!Packet}
      /\ recorder' = [recorder EXCEPT !.active = FALSE]
      /\ pc' = "waiting" /\ stage' = stage /\ parked' = parked
      /\ stream' = stream /\ generation' = generation /\ executed' = executed /\ now' = now
  BY <1>6 DEF Recorder!Export, Recorder!device
<1>8. RecorderType' /\ ~recorder'.active
  <2>1. recorder' \in RecorderStates
        /\ ~recorder'.active
        /\ recorder'.next = recorder.next
        /\ recorder'.terminal = recorder.terminal
    BY <1>1, <1>7
  <2>. QED BY <1>1, <2>1 DEF RecorderType
<1>9. StreamIsSuffix'
  <2>1. Len(stream') = 0 /\ stream' = <<>> /\ Total' = Recorder!Terminal + 1
    BY <1>1, <1>7, <1>8 DEF Total
  <2>. QED BY <2>1 DEF StreamIsSuffix
<1>10. GenerationsCount'
  <2>1. \A e : Pending(e)' <=> Pending(e)
    BY <1>7 DEF Pending
  <2>2. ASSUME NEW e \in Recorder!Events PROVE generation[e] <= served + 1
    <3>1. generation[e] <= served + (IF \E k \in 1..Total : EventAt(k) = e THEN 1 ELSE 0)
              /\ generation[e] \in 1..(Cohorts + 1)
      BY <1>1 DEF RecorderIInv, DeviceParts, GenerationsCount
    <3>. QED BY <1>1, <3>1
  <2>. QED BY <1>1, <1>7, <1>8, <2>1, <2>2 DEF RecorderIInv, DeviceParts, GenerationsCount
<1>11. ExecutedInOrder'
  BY <1>7, <1>8 DEF RecorderIInv, DeviceParts, ExecutedInOrder
<1>12. RunnerProgress'
  BY <1>1, <1>7 DEF RecorderIInv, RunnerProgress
<1>13. Recorder!PacketOfOneCohort'
  <2>. DEFINE p == Recorder!Packet
              cycles == Len(p.classes)
  <2>1. /\ p.cohort = served
        /\ p.classes = recorder.classes
        /\ p.events = [k \in 1..Total |-> executed[EventAt(k)]]
    BY <1>3 DEF Recorder!Packet
  <2>. HIDE DEF p
  <2>2. /\ cycles = stage + 1
        /\ cycles \in Nat \ {0}
        /\ Len(p.events) = Total
        /\ DOMAIN p.events = 1..Total
        /\ Total = (cycles * 5) + 1
    <3>1. cycles = stage + 1
      BY <1>1, <2>1
    <3>2. DOMAIN p.events = 1..Total /\ Len(p.events) = Total
      BY <1>2, <2>1
    <3>3. stage \in Nat /\ Total = (5 * (stage + 1)) + 1
      BY <1>1, <1>2
    <3>. HIDE DEF cycles, p
    <3>4. cycles \in Nat \ {0} /\ Total = (cycles * 5) + 1
      BY <3>1, <3>3
    <3>. QED BY <3>1, <3>2, <3>4
  <2>3. ASSUME NEW k \in DOMAIN p.events
        PROVE  p.events[k].mark = [cohort |-> p.cohort,
                 cycle |-> IF k = Len(p.events) THEN cycles - 1
                     ELSE (k - 1) \div Len(Recorder!LABELS)]
    <3>1. k \in 1..Total /\ p.events[k] = executed[EventAt(k)]
      BY <2>1, <2>2
    <3>2. executed[EventAt(k)].mark = MarkAt(k)
      BY <1>1, <1>2, <3>1 DEF RecorderIInv, DeviceParts, ExecutedInOrder
    <3>3. MarkAt(k) = [cohort |-> served, cycle |-> IF k = Total THEN stage ELSE (k - 1) \div 5]
      BY <1>1, <1>2, <3>1 DEF MarkAt
    <3>4. Len(p.events) = Total /\ p.cohort = served
      BY <2>1, <2>2
    <3>5. Len(Recorder!LABELS) = 5
      OBVIOUS
    <3>6. stage \in Nat
      BY <1>1
    <3>. HIDE DEF cycles
    <3>7. cycles - 1 = stage
      BY <2>2, <3>6
    <3>. QED BY <3>1, <3>2, <3>3, <3>4, <3>5, <3>7
  <2>4. ASSUME NEW k \in 1..(Len(p.events) - 1) PROVE p.events[k].time < p.events[k + 1].time
    <3>1. k \in 1..recorder.next
      BY <1>2, <2>2
    <3>2. /\ k \in 1..Total
          /\ k + 1 \in 1..Total
          /\ executed[EventAt(k)].time < executed[EventAt(k + 1)].time
      BY <1>3, <1>5, <3>1
    <3>. QED BY <2>1, <3>2
  <2>5. /\ p.classes[1].before = 0 /\ p.classes[cycles].after = NumSlots
        /\ \A c \in 1..(cycles - 1) : p.classes[c].after = p.classes[c + 1].before
    <3>1. recorder.classes # <<>>
      BY <1>1
    <3>2. /\ recorder.classes[1].before = 0
          /\ parked = recorder.classes[Len(recorder.classes)].after
          /\ parked = NumSlots
          /\ \A c \in 1..(Len(recorder.classes) - 1) : recorder.classes[c].after
               = recorder.classes[c + 1].before
      BY <1>1, <3>1 DEF RecorderIInv, RunnerProgress
    <3>. QED BY <2>1, <3>2
  <2>6. Len(p.events) = cycles * Len(Recorder!LABELS) + 1
    BY <2>2
  <2>7. ASSUME NEW q \in packets', q # p PROVE q \in packets
    BY <1>7, <2>7 DEF p
  <2>. HIDE DEF cycles
  <2>. QED BY <2>3, <2>4, <2>5, <2>6, <2>7
              DEF RecorderIInv, Recorder!PacketOfOneCohort, cycles
<1>. QED BY <1>7, <1>8, <1>9, <1>10, <1>11, <1>12, <1>13
            DEF RecorderIInv, DeviceParts, Recorder!OnlyBeginRaises

\* Every step of the recorder keeps its invariant.
LEMMA RecorderKeeps == ASSUME RecorderIInv, [Recorder!Next]_(Recorder!vars) PROVE RecorderIInv'
<1>1. CASE UNCHANGED Recorder!vars
  <2>1. UNCHANGED <<Recorder!device, recorder, packets>> /\ served' = served
    BY <1>1 DEF Recorder!vars, Recorder!device
  <2>2. served' \in 0..Cohorts /\ served <= served'
    BY <2>1, PoolSize DEF RecorderIInv, RunnerProgress
  <2>3. DeviceParts' /\ Recorder!PacketOfOneCohort'
    BY <2>1, <2>2, RecorderRests
  <2>4. RunnerProgress' /\ Recorder!OnlyBeginRaises'
    BY <1>1 DEF Recorder!vars, RecorderIInv, RunnerProgress, Recorder!OnlyBeginRaises
  <2>. QED BY <2>3, <2>4 DEF RecorderIInv
<1>. QED BY <1>1, ExecuteRecordKeeps, ServeUnobservedKeeps, BeginCohortKeeps, MarkKeeps,
            ClassRowKeeps, RecordTerminalKeeps, DrainKeeps, ExportKeeps, AbortCohortKeeps
            DEF Recorder!Next

\* An observed cohort begins with no record outstanding.
LEMMA QuietFollows == RecorderIInv => Recorder!PoolQuiet
<1>. USE DEF RecorderStates, Executions
<1>. SUFFICES ASSUME RecorderIInv, recorder.active, recorder.next = 0, NEW e \in Recorder!Events
              PROVE  Recorder!Query(e)
  BY DEF Recorder!PoolQuiet
<1>1. Total = 0
  BY TotalType DEF RecorderIInv, DeviceParts
<1>2. Len(stream) = 0
  BY <1>1 DEF RecorderIInv, DeviceParts, StreamIsSuffix
<1>3. ~Pending(e)
  BY <1>2 DEF Pending
<1>4. executed[e] \in Executions
  BY DEF RecorderIInv, DeviceParts, ExecutedInOrder
<1>5. generation[e] = executed[e].generation + 0
  BY <1>3 DEF RecorderIInv, DeviceParts, GenerationsCount
<1>. QED BY <1>4, <1>5, PoolSize DEF Recorder!Query

\* The types follow from the invariant.
LEMMA RecorderTypes == RecorderIInv => Recorder!TypeOK
<1>. USE DEF RecorderStates, Executions
<1>. SUFFICES ASSUME RecorderIInv PROVE Recorder!TypeOK
  OBVIOUS
<1>1. stream \in Seq([event : Recorder!Events, mark : Recorder!Marks])
  BY DEF RecorderIInv, DeviceParts, StreamIsSuffix, Records
<1>. QED BY <1>1
            DEF RecorderIInv, DeviceParts, RecorderType, GenerationsCount, ExecutedInOrder,
                RunnerProgress, Recorder!TypeOK

-----------------------------------------------------------------------------
(* The parts together: the invariant of the one that moves.                *)
DeviceIInv ==
  /\ part = "speculation" => SpeculationIInv
  /\ part = "replay" => ReplayIInv
  /\ part = "metadata" => MetadataIInv
  /\ part = "recorder" => RecorderIInv

\* Whichever part is to move, it starts in one of its initial states.
LEMMA DeviceInit == Init => DeviceIInv
BY SpeculationInit, ReplayInit, MetadataInit, RecorderInit DEF Init, DeviceIInv

\* Only the variables of the part that moves change, so its own lemma applies.
LEMMA DeviceKeeps == DeviceIInv /\ [Next]_vars => DeviceIInv'
<1>. SUFFICES ASSUME DeviceIInv, [Next]_vars PROVE DeviceIInv'
  OBVIOUS
<1>1. part' = part
  BY DEF Next, vars
<1>2. CASE part = "speculation"
  <2>1. [Decode!Next]_(Decode!vars)
    BY <1>2 DEF Next, vars, speculationVars, Decode!vars
  <2>. QED  BY <1>1, <1>2, <2>1, SpeculationKeeps DEF DeviceIInv
<1>3. CASE part = "replay"
  <2>1. [Replay!Next]_(Replay!vars)
    BY <1>3 DEF Next, vars, replayVars, Replay!vars, Replay!pre
  <2>. QED  BY <1>1, <1>3, <2>1, ReplayKeeps DEF DeviceIInv
<1>4. CASE part = "metadata"
  <2>1. [Metadata!Next]_(Metadata!vars)
    BY <1>4 DEF Next, vars, metadataVars, Metadata!vars
  <2>. QED  BY <1>1, <1>4, <2>1, MetadataKeeps DEF DeviceIInv
<1>5. CASE part = "recorder"
  <2>1. [Recorder!Next]_(Recorder!vars)
    BY <1>5 DEF Next, vars, recorderVars, Recorder!vars
  <2>. QED  BY <1>1, <1>5, <2>1, RecorderKeeps DEF DeviceIInv
<1>. QED  BY <1>1, <1>2, <1>3, <1>4, <1>5 DEF DeviceIInv

\* The invariant holds throughout.
THEOREM Invariance == Spec => []DeviceIInv
BY DeviceInit, DeviceKeeps, PTL DEF Spec

\* Speculation does not change the output: whatever the drafts are, whatever stale rows
\* the cache holds and wherever slots are parked, every token of the output is the
\* target's greedy choice after everything before it.
THEOREM SpeculationIsLossless == Spec => []Lossless
<1>1. DeviceIInv => Lossless
  BY DEF DeviceIInv, SpeculationIInv, Lossless
<1>. QED  BY <1>1, Invariance, PTL

\* The paged cache of a live slot holds its context, row by row, rejected draft tokens or
\* not, and no slot writes into the blocks of another.
THEOREM CacheIsContext == Spec => []CacheHoldsContext
<1>1. DeviceIInv => CacheHoldsContext
  BY DEF DeviceIInv, SpeculationIInv, CacheHoldsContext
<1>. QED  BY <1>1, Invariance, PTL

\* The executions of an audited cycle that are compared have read the same pages and
\* metadata, every restoration verifies and every snapshot is consumed, although the
\* writes of an execution land in any order and late.
THEOREM AuditComparesAlike == Spec => []ComparesLikeWithLike
<1>1. DeviceIInv => ComparesLikeWithLike
  BY AgreementFollows DEF DeviceIInv, ComparesLikeWithLike
<1>. QED  BY <1>1, Invariance, PTL

\* A replayed cycle leaves the pages and the metadata of one execution, the one whose
\* output it goes on with.
THEOREM AuditLeavesOneExecution == Spec => []LeavesOneExecution
<1>1. DeviceIInv => LeavesOneExecution
  BY OneExecutionFollows DEF DeviceIInv, LeavesOneExecution
<1>. QED  BY <1>1, Invariance, PTL

\* The variables of every part keep their types: no slot leaves its blocks, no write
\* its page, no running sum its slice, and no cohort outgrows the pool of events.
THEOREM TypeCorrect == Spec => []TypeOK
<1>1. DeviceIInv => TypeOK
  BY MetadataTypes, RecorderTypes DEF DeviceIInv, SpeculationIInv, ReplayIInv, TypeOK
<1>. QED  BY <1>1, Invariance, PTL

\* For every number of ranks and of tokens: each token of the cohort is computed by
\* exactly one rank, the ranks that run have the metadata of the pass at hand, updated
\* in place or computed ahead, and each token sees exactly the keys up to its position.
THEOREM RanksAttend == Spec => []RanksAttendAsOne
<1>1. DeviceIInv => RanksAttendAsOne
  BY EachTokenOnceFollows, PreparedFollows, AttentionFollows
     DEF DeviceIInv, MetadataIInv, RanksAttendAsOne
<1>. QED  BY <1>1, Invariance, PTL

\* The page audit's manifest has exactly the pages that the pass writes, for every
\* compression ratio, block size and position.
THEOREM ManifestExact == Spec => []ManifestIsExact
<1>1. DeviceIInv => ManifestIsExact
  BY ManifestFollows DEF DeviceIInv, ManifestIsExact
<1>. QED  BY <1>1, Invariance, PTL

\* The recorder's pool is quiet when a cohort begins, though only its last event is
\* asked for; an observed cohort is never stopped by its recorder; and a packet is
\* about one cohort, complete and in order.
THEOREM CohortsApart == Spec => []CohortsKeptApart
<1>1. DeviceIInv => CohortsKeptApart
  BY QuietFollows DEF DeviceIInv, RecorderIInv, CohortsKeptApart
<1>. QED  BY <1>1, Invariance, PTL
=============================================================================
