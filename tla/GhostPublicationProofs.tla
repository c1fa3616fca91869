------------------------ MODULE GhostPublicationProofs ------------------------
(***************************************************************************)
(* For every cohort, vocabulary and limit: the ledger keeps its types, a   *)
(* client is answered once, early answers are complete, and the ledger     *)
(* implements the contract of its clients.                                 *)
(***************************************************************************)
EXTENDS GhostPublicationProperties, SequenceTheorems, TLAPS

(* A client that was not published early has no answer before settlement.  *)
UnansweredBefore ==
  ~settled => \A r \in Requests : early[r] = Nothing => replies[r] = <<>>

(* A published segment is what the Runtime has produced up to the limit.   *)
PublishedSegments ==
  \A r \in Requests : early[r] # Nothing =>
    /\ Remaining(r) \in 1..MaxTokens /\ Remaining(r) <= Len(runtime[r])
    /\ early[r] = Segment(r)

IInv == TypeOK /\ AnsweredOnce /\ UnansweredBefore /\ PublishedSegments

LEMMA SegmentType ==
  ASSUME NEW r \in Requests, TypeOK, Remaining(r) > 0, Len(runtime[r]) >= Remaining(r)
  PROVE  /\ Segment(r) \in Outputs /\ Segment(r) # Nothing
         /\ Len(Segment(r)) = Remaining(r)
         /\ Remaining(r) \in 1..MaxTokens
<1>. USE GhostAssumption
<1>1. /\ runtime[r] \in Seq(Tokens) /\ prior[r] \in 0..MaxTokens
      /\ Remaining(r) \in 1..MaxTokens
  BY DEF TypeOK, Remaining
<1>2. /\ Segment(r) \in Seq(Tokens) /\ Len(Segment(r)) = Remaining(r)
  BY <1>1, SubSeqProperties DEF Segment
<1>3. Segment(r) \in [1..Remaining(r) -> Tokens]
  BY <1>2, LenProperties
<1>4. Segment(r) \in Outputs
  BY <1>1, <1>3 DEF Outputs
<1>. QED  BY <1>1, <1>2, <1>4

LEMMA FirstAnswer ==
  ASSUME NEW answer \in Outputs
  PROVE  /\ Append(<<>>, answer) = <<answer>>
         /\ <<answer>> \in Seq(Outputs) /\ Len(<<answer>>) = 1
  OBVIOUS

LEMMA InitIInv == Init => IInv
<1>. USE GhostAssumption
<1>. SUFFICES ASSUME Init PROVE IInv
  OBVIOUS
<1>1. \A r \in Requests : /\ runtime[r] = <<>> /\ early[r] = Nothing
                          /\ final[r] = Nothing /\ replies[r] = <<>>
  BY DEF Init
<1>2. TypeOK
  <2>1. <<>> \in Seq(Tokens) /\ <<>> \in Seq(Outputs)
    OBVIOUS
  <2>2. runtime \in [Requests -> Seq(Tokens)] /\ replies \in [Requests -> Seq(Outputs)]
    BY <2>1 DEF Init
  <2>3. /\ early \in [Requests -> Outputs \cup {Nothing}]
        /\ final \in [Requests -> Outputs \cup {Nothing}]
    BY Zenon DEF Init
  <2>. QED  BY <2>2, <2>3 DEF Init, TypeOK
<1>3. AnsweredOnce
  <2>1. Len(<<>>) = 0
    OBVIOUS
  <2>2. ~settled
    BY DEF Init
  <2>3. ASSUME NEW r \in Requests
        PROVE  Len(replies[r]) <= 1 /\ early[r] = Nothing
    <3>1. replies[r] = <<>> /\ early[r] = Nothing
      BY <1>1
    <3>. QED  BY <2>1, <3>1
  <2>. QED  BY <2>2, <2>3 DEF AnsweredOnce
<1>. QED  BY <1>1, <1>2, <1>3 DEF IInv, UnansweredBefore, PublishedSegments

LEMMA AppendTokenKeeps ==
  ASSUME IInv, NEW r \in Requests, AppendToken(r) PROVE IInv'
<1>. USE GhostAssumption DEF IInv, AppendToken, ledger
<1>1. PICK token \in Tokens : runtime' = [runtime EXCEPT ![r] = Append(@, token)]
  OBVIOUS
<1>2. /\ runtime[r] \in Seq(Tokens) /\ Append(runtime[r], token) \in Seq(Tokens)
      /\ Len(Append(runtime[r], token)) = Len(runtime[r]) + 1
  BY <1>1, AppendProperties DEF TypeOK
<1>3. TypeOK'
  BY <1>1, <1>2 DEF TypeOK
<1>4. AnsweredOnce' /\ UnansweredBefore'
  BY DEF AnsweredOnce, UnansweredBefore
<1>5. ASSUME NEW c \in Requests, early'[c] # Nothing
      PROVE  /\ Remaining(c)' \in 1..MaxTokens /\ Remaining(c)' <= Len(runtime'[c])
             /\ early'[c] = Segment(c)'
  <2>. DEFINE n == Remaining(c)
  <2>1. /\ n \in 1..MaxTokens /\ n <= Len(runtime[c]) /\ early[c] = SubSeq(runtime[c], 1, n)
        /\ n' = n /\ early' = early
    BY <1>5 DEF PublishedSegments, Segment, Remaining
  <2>. HIDE DEF n
  <2>2. /\ n <= Len(runtime'[c])
        /\ SubSeq(runtime'[c], 1, n) = SubSeq(runtime[c], 1, n)
    <3>1. CASE c # r
      BY <3>1, <1>1, <2>1 DEF TypeOK
    <3>2. CASE c = r
      <4>1. runtime'[c] = Append(runtime[c], token)
        BY <1>1, <3>2 DEF TypeOK
      <4>. DEFINE old == runtime[c]
                  new == Append(runtime[c], token)
      <4>2. /\ old \in Seq(Tokens) /\ new \in Seq(Tokens)
            /\ n <= Len(old) /\ n <= Len(new)
            /\ \A i \in 1..n : new[i] = old[i]
        BY <1>2, <2>1, <3>2, LenProperties, AppendProperties
      <4>. HIDE DEF old, new
      <4>3. SubSeq(new, 1, n) = SubSeq(old, 1, n)
        BY <4>2, <2>1
      <4>. QED  BY <4>1, <4>2, <4>3 DEF old, new
    <3>. QED  BY <3>1, <3>2
  <2>. QED  BY <2>1, <2>2 DEF n, Segment
<1>6. PublishedSegments'
  BY <1>5 DEF PublishedSegments
<1>. QED  BY <1>3, <1>4, <1>6

LEMMA PublishKeeps ==
  ASSUME IInv, NEW r \in Requests, Publish(r) PROVE IInv'
<1>. USE GhostAssumption DEF IInv, Publish
<1>1. /\ Segment(r) \in Outputs /\ Segment(r) # Nothing
      /\ Remaining(r) \in 1..MaxTokens /\ Remaining(r) <= Len(runtime[r])
  BY SegmentType DEF TypeOK
<1>2. replies[r] = <<>>
  BY Zenon DEF UnansweredBefore
<1>3. /\ early' = [early EXCEPT ![r] = Segment(r)]
      /\ replies' = [replies EXCEPT ![r] = Append(<<>>, Segment(r))]
  BY <1>2, Zenon
<1>4. /\ Append(<<>>, Segment(r)) = <<Segment(r)>>
      /\ <<Segment(r)>> \in Seq(Outputs) /\ Len(<<Segment(r)>>) = 1
  BY <1>1, FirstAnswer
<1>5. TypeOK'
  BY <1>1, <1>3, <1>4 DEF TypeOK
<1>6. \A c \in Requests :
        /\ early'[c] = IF c = r THEN Segment(r) ELSE early[c]
        /\ replies'[c] = IF c = r THEN <<Segment(r)>> ELSE replies[c]
  BY <1>3, <1>4 DEF TypeOK
<1>7. AnsweredOnce' /\ UnansweredBefore'
  BY <1>1, <1>4, <1>6 DEF AnsweredOnce, UnansweredBefore
<1>8. PublishedSegments'
  BY <1>1, <1>3 DEF TypeOK, PublishedSegments, Segment, Remaining
<1>. QED  BY <1>5, <1>7, <1>8

LEMMA SettleOnceKeeps ==
  ASSUME IInv, NEW outputs \in Settlements, SettleOnce(outputs) PROVE IInv'
<1>. USE GhostAssumption DEF IInv, SettleOnce
<1>1. outputs \in [Requests -> Outputs]
  BY DEF Settlements
<1>2. CASE UNCHANGED <<settled, final, replies>>
  BY <1>2 DEF TypeOK, AnsweredOnce, UnansweredBefore, PublishedSegments, Segment, Remaining
<1>3. CASE /\ \A r \in Early : outputs[r] = early[r]
           /\ settled' = TRUE /\ final' = outputs /\ SendRows(outputs, Early)
           /\ UNCHANGED failed
  <2>1. \A r \in Requests : replies'[r] = <<outputs[r]>>
    <3>1. ASSUME NEW r \in Requests, early[r] # Nothing
          PROVE  replies'[r] = <<outputs[r]>>
      BY <1>3, <3>1 DEF SendRows, Early, AnsweredOnce
    <3>2. ASSUME NEW r \in Requests, early[r] = Nothing
          PROVE  replies'[r] = <<outputs[r]>>
      <4>1. replies[r] = <<>> /\ replies'[r] = Append(replies[r], outputs[r])
        BY <1>3, <3>2 DEF SendRows, Early, UnansweredBefore
      <4>2. Append(<<>>, outputs[r]) = <<outputs[r]>>
        BY <1>1, FirstAnswer
      <4>. QED  BY <4>1, <4>2
    <3>. QED  BY <3>1, <3>2
  <2>2. \A r \in Requests : replies'[r] \in Seq(Outputs) /\ Len(replies'[r]) = 1
    <3>. TAKE r \in Requests
    <3>1. outputs[r] \in Outputs
      BY <1>1
    <3>. QED  BY <2>1, <3>1, FirstAnswer
  <2>3. replies' \in [Requests -> Seq(Outputs)]
    BY <2>2, <1>3 DEF SendRows
  <2>4. TypeOK'
    BY <1>1, <1>3, <2>3 DEF TypeOK
  <2>5. \A r \in Requests : early[r] # Nothing => outputs[r] = early[r]
    BY <1>3 DEF Early
  <2>6. early' = early /\ final' = outputs /\ settled' = TRUE
    BY <1>3
  <2>7. \A r \in Requests :
          /\ Len(replies'[r]) <= 1
          /\ early'[r] # Nothing => replies'[r] = <<early'[r]>>
          /\ replies'[r] = <<final'[r]>>
    <3>. TAKE r \in Requests
    <3>1. Len(replies'[r]) <= 1
      <4>1. Len(replies'[r]) = 1
        BY <2>2
      <4>. QED  BY <4>1
    <3>2. early'[r] # Nothing => replies'[r] = <<early'[r]>>
      BY <2>1, <2>5, <2>6, Zenon
    <3>3. replies'[r] = <<final'[r]>>
      BY <2>1, <2>6, Zenon
    <3>. QED  BY <3>1, <3>2, <3>3
  <2>8. AnsweredOnce' /\ UnansweredBefore'
    BY <2>6, <2>7 DEF AnsweredOnce, UnansweredBefore
  <2>9. PublishedSegments'
    BY <1>3 DEF PublishedSegments, Segment, Remaining
  <2>. QED  BY <2>4, <2>8, <2>9
<1>. QED  BY <1>2, <1>3

LEMMA NextKeeps == IInv /\ [Next]_vars => IInv'
<1>. SUFFICES ASSUME IInv, [Next]_vars PROVE IInv'
  OBVIOUS
<1>1. CASE FailContinuation
  BY <1>1 DEF IInv, FailContinuation, TypeOK, AnsweredOnce, UnansweredBefore,
              PublishedSegments, Segment, Remaining
<1>2. CASE UNCHANGED vars
  BY <1>2 DEF IInv, vars, ledger, TypeOK, AnsweredOnce, UnansweredBefore,
              PublishedSegments, Segment, Remaining
<1>. QED  BY <1>1, <1>2, AppendTokenKeeps, PublishKeeps, SettleOnceKeeps DEF Next

LEMMA SpecIInv == Spec => []IInv
  BY InitIInv, NextKeeps, PTL DEF Spec

\* The ledger keeps its types and is never settled and failed at once.
THEOREM TypeCorrect == Spec => []TypeOK
<1>1. IInv => TypeOK
  BY DEF IInv
<1>. QED  BY <1>1, SpecIInv, PTL

\* Every client is answered at most once, and after the settlement with
\* exactly what was settled.
THEOREM AnswersOnce == Spec => []AnsweredOnce
<1>1. IInv => AnsweredOnce
  BY DEF IInv
<1>. QED  BY <1>1, SpecIInv, PTL

\* An early answer completes its request with the Runtime's own tokens.
THEOREM EarlyAnswersComplete == Spec => []EarlyAnswerComplete
<1>1. IInv => EarlyAnswerComplete
  <2>. SUFFICES ASSUME IInv, NEW r \in Requests, early[r] # Nothing
                PROVE  /\ prior[r] + Len(early[r]) = MaxTokens
                       /\ early[r] = SubSeq(runtime[r], 1, Len(early[r]))
    BY DEF EarlyAnswerComplete
  <2>1. /\ TypeOK /\ Remaining(r) \in 1..MaxTokens /\ Remaining(r) <= Len(runtime[r])
        /\ early[r] = Segment(r)
    BY DEF IInv, PublishedSegments
  <2>2. Remaining(r) > 0 /\ Len(runtime[r]) >= Remaining(r)
    BY <2>1, GhostAssumption, LenProperties DEF TypeOK
  <2>3. Len(early[r]) = Remaining(r)
    BY <2>1, <2>2, SegmentType
  <2>. QED  BY <2>1, <2>3, GhostAssumption DEF Segment, Remaining, TypeOK
<1>. QED  BY <1>1, SpecIInv, PTL

(***************************************************************************)
(* The contract of the clients.                                            *)
(***************************************************************************)
LEMMA InitContract == Init => Contract!Init
<1>. SUFFICES ASSUME Init PROVE Contract!Init
  OBVIOUS
<1>1. \A r \in Requests : replies[r] = <<>>
  BY DEF Init
<1>2. Promised = [r \in Requests |-> Nothing]
  BY <1>1 DEF Promised
<1>3. Verdict = "open"
  BY DEF Init, Verdict
<1>. QED  BY <1>2, <1>3 DEF Contract!Init

LEMMA SameReplies ==
  ASSUME UNCHANGED replies PROVE UNCHANGED Promised
  BY DEF Promised

LEMMA PublishPromises ==
  ASSUME IInv, NEW r \in Requests, Publish(r) PROVE Contract!Next
<1>1. Segment(r) \in Outputs /\ Segment(r) # Nothing
  BY SegmentType DEF IInv, Publish
<1>2. replies[r] = <<>> /\ Promised[r] = Nothing
  BY Zenon DEF IInv, UnansweredBefore, Publish, Promised
<1>3. replies' = [replies EXCEPT ![r] = Append(<<>>, Segment(r))]
  BY <1>2, Zenon DEF Publish
<1>4. Append(<<>>, Segment(r)) = <<Segment(r)>>
  BY <1>1, FirstAnswer
<1>5. Promised' = [Promised EXCEPT ![r] = Segment(r)]
  <2>1. \A c \in Requests : replies'[c] = IF c = r THEN <<Segment(r)>> ELSE replies[c]
    BY <1>3, <1>4 DEF IInv, TypeOK
  <2>2. <<Segment(r)>> # <<>> /\ <<Segment(r)>>[1] = Segment(r)
    OBVIOUS
  <2>3. \A c \in Requests : Promised'[c] = IF c = r THEN Segment(r) ELSE Promised[c]
    BY <2>1, <2>2 DEF Promised
  <2>. QED  BY <2>3 DEF Promised
<1>6. Verdict = "open" /\ Verdict' = Verdict
  BY DEF Publish, Verdict
<1>. QED  BY <1>1, <1>2, <1>5, <1>6 DEF Contract!Next, Contract!Promise

LEMMA SettleOnceSettles ==
  ASSUME IInv, NEW outputs \in Settlements, SettleOnce(outputs)
  PROVE  Contract!Next
<1>1. Verdict = "open"
  BY DEF SettleOnce, Verdict
<1>2. CASE failed' = TRUE /\ UNCHANGED <<settled, final, replies>>
  <2>1. Verdict' = "failed"
    BY <1>2 DEF SettleOnce, Verdict
  <2>. QED  BY <1>1, <1>2, <2>1, SameReplies DEF Contract!Next, Contract!Fail
<1>3. CASE settled' = TRUE /\ final' = outputs
  <2>1. IInv'
    BY SettleOnceKeeps
  <2>2. outputs \in [Requests -> Outputs]
    BY DEF Settlements
  <2>3. \A r \in Requests : replies'[r] = <<outputs[r]>>
    BY <2>1, <1>3, Zenon DEF IInv, AnsweredOnce
  <2>4. \A r \in Requests : Promised'[r] = outputs[r]
    <3>. TAKE r \in Requests
    <3>1. <<outputs[r]>> # <<>> /\ <<outputs[r]>>[1] = outputs[r]
      OBVIOUS
    <3>. QED  BY <2>3, <3>1 DEF Promised
  <2>5. Promised' = [r \in Requests |-> outputs[r]] /\ Promised' \in [Requests -> Outputs]
    BY <2>2, <2>4 DEF Promised
  <2>6. ASSUME NEW r \in Requests, Promised[r] # Nothing
        PROVE  Promised'[r] = Promised[r]
    <3>1. early[r] # Nothing /\ early' = early
      BY <2>6, Zenon DEF IInv, UnansweredBefore, Promised, SettleOnce
    <3>2. replies[r] = <<early[r]>> /\ replies'[r] = <<early[r]>>
      BY <3>1, <2>1, Zenon DEF IInv, AnsweredOnce
    <3>. QED  BY <3>2 DEF Promised
  <2>7. Verdict' = "settled"
    BY <1>3 DEF Verdict
  <2>. QED  BY <1>1, <2>5, <2>6, <2>7 DEF Contract!Next, Contract!Settle
<1>. QED  BY <1>2, <1>3 DEF SettleOnce

LEMMA NextContract ==
  IInv /\ [Next]_vars => [Contract!Next]_<<Promised, Verdict>>
<1>. SUFFICES ASSUME IInv, [Next]_vars
              PROVE  Contract!Next \/ UNCHANGED <<Promised, Verdict>>
  OBVIOUS
<1>1. CASE FailContinuation
  <2>1. UNCHANGED Promised
    BY <1>1, SameReplies DEF FailContinuation
  <2>2. CASE failed
    BY <1>1, <2>1, <2>2 DEF FailContinuation, Verdict, IInv, TypeOK
  <2>3. CASE ~failed
    <3>1. Verdict = "open" /\ Verdict' = "failed"
      BY <1>1, <2>3 DEF FailContinuation, Verdict
    <3>. QED  BY <2>1, <3>1 DEF Contract!Next, Contract!Fail
  <2>. QED  BY <2>2, <2>3
<1>2. CASE UNCHANGED vars
  BY <1>2, SameReplies DEF vars, ledger, Verdict
<1>3. ASSUME NEW r \in Requests, AppendToken(r) PROVE UNCHANGED <<Promised, Verdict>>
  BY <1>3, SameReplies DEF AppendToken, ledger, Verdict
<1>. QED  BY <1>1, <1>2, <1>3, PublishPromises, SettleOnceSettles DEF Next

\* The ledger implements the contract: what a client has been answered is
\* never changed or taken back, whatever the settlement brings.
THEOREM ContractKept == Spec => KeepsContract
<1>. QED  BY InitContract, NextContract, SpecIInv, PTL DEF Spec, KeepsContract, Contract!Spec
=============================================================================
