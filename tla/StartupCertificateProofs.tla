----------------------- MODULE StartupCertificateProofs -----------------------
(***************************************************************************)
(* Proofs about the startup slot certificate, for any requests, groups,    *)
(* tables, block sizes, width, horizon and dtype.  The inductive invariant *)
(* says why a certificate stays true while nobody looks: what is left of   *)
(* the certified span shrinks by a width in every cycle, by as much as a   *)
(* position can advance, and no request can complete before it is used up. *)
(***************************************************************************)
EXTENDS StartupCertificateProperties, TLAPS

allVars == <<vars, certificate, guard>>

(***************************************************************************)
(* The inductive invariant.                                                *)
(***************************************************************************)
EmittedBounded == \A r \in Requests : emitted[r] <= Width * cycle

IdentitiesPast == \A g \in Groups : identities[g] <= identity[g]

Unbuilt == ~certified => ~eligible /\ ~invalidated /\ nextCycle = 0

Separate ==
  eligible => overlaps = {} /\ \A r \in Requests : remaining[r] > Width * Horizon

WithinDtype ==
  eligible /\ ~invalidated /\ SameBindings /\ cycle < Horizon =>
    \A r \in Requests :
      0 <= position[r] /\ position[r] + Width * (Horizon - cycle) <= MaxComputed

SkipsOnlyCertified ==
  turn # 0 => /\ guard => cycle < Horizon
              /\ ~guard /\ cycle < Horizon => eligible /\ ~invalidated /\ SameBindings

IInv ==
  /\ TypeOK /\ EmittedBounded /\ IdentitiesPast /\ Unbuilt /\ Separate
  /\ WithinDtype /\ CertificateCovers /\ UsedThroughout /\ SkipsOnlyCertified

(***************************************************************************)
(* Arithmetic.                                                             *)
(***************************************************************************)
\* What is left of the span shrinks by a width per cycle.
LEMMA OneCycleLess ==
  ASSUME NEW w \in Int, NEW h \in Int, NEW c \in Int
  PROVE  w * (h - (c + 1)) = w * (h - c) - w /\ w * (c + 1) = w * c + w
  OBVIOUS

LEMMA AtLeastOne ==
  ASSUME NEW w \in Nat, NEW k \in Nat \ {0}
  PROVE  w * k >= w
  OBVIOUS

LEMMA ProductGrows ==
  ASSUME NEW w \in Nat, NEW c \in Nat, NEW h \in Nat, c <= h
  PROVE  w * c <= w * h
  OBVIOUS

\* The columns grow with the positions.
LEMMA DivisionMonotone ==
  ASSUME NEW a \in Nat, NEW b \in Nat, NEW n \in Nat \ {0}, a <= b
  PROVE  a \div n \in Nat /\ b \div n \in Nat /\ a \div n <= b \div n
  OBVIOUS

\* Nothing of the span is left after the horizon.
LEMMA NoneLeft ==
  ASSUME NEW w \in Nat, NEW k \in Int, k <= 0
  PROVE  w * k <= 0
  OBVIOUS

LEMMA Widened ==
  ASSUME NEW D, NEW A, NEW B, A \subseteq B, NEW f \in [D -> A]
  PROVE  f \in [D -> B]
  OBVIOUS

(***************************************************************************)
(* The initial states.                                                     *)
(***************************************************************************)
LEMMA InitHoles == ASSUME Init PROVE holes \in [Groups -> SUBSET Cells]
<1>1. Tables \subseteq SUBSET Cells
  BY SlotRefreshAssumption
<1>2. holes \in [Groups -> Tables]
  BY DEF Init
<1> QED BY <1>1, <1>2, Widened, Zenon

LEMMA InitPositions ==
  ASSUME Init
  PROVE  origin \in [Requests -> 0..MaxComputed]
         /\ position \in [Requests -> (0 - MaxComputed - 1)..MaxComputed]
<1>1. Positions \subseteq 0..MaxComputed
  BY SlotRefreshAssumption
<1>2. origin \in [Requests -> Positions] /\ position = origin
  BY DEF Init
<1>3. origin \in [Requests -> 0..MaxComputed]
  BY <1>1, <1>2, Widened, Zenon
<1>4. 0..MaxComputed \subseteq (0 - MaxComputed - 1)..MaxComputed
  BY SlotRefreshAssumption
<1> QED BY <1>2, <1>3, <1>4, Widened, Zenon

LEMMA InitInvariant == CertifiedInit => IInv
<1> SUFFICES ASSUME CertifiedInit PROVE IInv
  OBVIOUS
<1>0. holes \in [Groups -> SUBSET Cells]
        /\ origin \in [Requests -> 0..MaxComputed]
        /\ position \in [Requests -> (0 - MaxComputed - 1)..MaxComputed]
  BY InitHoles, InitPositions DEF CertifiedInit
<1> USE SlotRefreshAssumption DEF CertifiedInit, Init
<1>1. TypeOK
  <2>1. remaining \in [Requests -> Nat]
    OBVIOUS
  <2>4. overlaps \subseteq Groups \X Groups
    OBVIOUS
  <2>2. emitted \in [Requests -> Nat] /\ identity \in [Groups -> Nat] /\ turn \in 0..(GroupCount + 1)
    OBVIOUS
  <2>3. slots \in [Groups -> {"unset", "valid", "wild"}]
    OBVIOUS
  <2>5. cycle \in Nat /\ nextCycle \in 0..(cycle + 1) /\ parked \subseteq Requests
    OBVIOUS
  <2>6. identities \in [Groups -> Nat]
    OBVIOUS
  <2>7. /\ raised \in {"no", "outside", "negative", "overflow"}
        /\ certified \in BOOLEAN /\ eligible \in BOOLEAN /\ invalidated \in BOOLEAN
        /\ guard \in BOOLEAN
    OBVIOUS
  <2> HIDE DEF CertifiedInit, Init
  <2> QED BY <1>0, <2>1, <2>2, <2>3, <2>4, <2>5, <2>6, <2>7, Zenon DEF TypeOK
<1>2. EmittedBounded /\ IdentitiesPast
  BY DEF EmittedBounded, IdentitiesPast
<1> QED BY <1>1, <1>2 DEF IInv, Unbuilt, Separate, WithinDtype, CertificateCovers,
             UsedThroughout, SkipsOnlyCertified

(***************************************************************************)
(* The steps that leave the cohort and the tables alone.                   *)
(***************************************************************************)
\* What is certified lies between the columns that were looked at.
LEMMA CertifiableCovers ==
  ASSUME TypeOK, Certifiable
  PROVE  \A g \in Groups, r \in Requests :
           \A p \in position[r]..(position[r] + Width * (Horizon - cycle) - 1) :
             /\ p \div BlockSize[g] \in 0..(Columns[g] - 1)
             /\ <<r, p \div BlockSize[g]>> \notin holes[g]
<1> SUFFICES ASSUME NEW g \in Groups, NEW r \in Requests,
                    NEW p \in position[r]..(position[r] + Width * (Horizon - cycle) - 1)
             PROVE  /\ p \div BlockSize[g] \in 0..(Columns[g] - 1)
                    /\ <<r, p \div BlockSize[g]>> \notin holes[g]
  OBVIOUS
<1>1. cycle = 0 /\ Width * (Horizon - cycle) = Span
  BY SlotRefreshAssumption DEF Certifiable, Span
<1>2. Span \in Nat /\ position[r] \in Nat /\ BlockSize[g] \in Nat \ {0} /\ Columns[g] \in Nat
  BY SlotRefreshAssumption DEF Certifiable, Span, TypeOK
<1>3. p \in Nat /\ position[r] + Span - 1 \in Nat
      /\ position[r] <= p /\ p <= position[r] + Span - 1
  BY <1>1, <1>2
<1>4. /\ position[r] \div BlockSize[g] \in Nat /\ p \div BlockSize[g] \in Nat
      /\ position[r] \div BlockSize[g] <= p \div BlockSize[g]
  BY <1>2, <1>3, DivisionMonotone
<1>5. /\ (position[r] + Span - 1) \div BlockSize[g] \in Nat
      /\ p \div BlockSize[g] <= (position[r] + Span - 1) \div BlockSize[g]
  BY <1>2, <1>3, DivisionMonotone
<1>6. p \div BlockSize[g] \in ReachableColumns(r, g)
  BY <1>4, <1>5 DEF ReachableColumns
<1>7. p \div BlockSize[g] < Columns[g] /\ <<r, p \div BlockSize[g]>> \notin holes[g]
  BY <1>6 DEF Certifiable
<1> QED BY <1>2, <1>4, <1>7

LEMMA BuildKeeps == ASSUME IInv, BuildCertificate PROVE IInv'
<1> USE SlotRefreshAssumption DEF BuildCertificate, Idle, vars, cohort, tables
<1>1. TypeOK'
  <2>1. eligible' \in BOOLEAN
    BY DEF Certifiable
  <2> QED BY <2>1 DEF IInv, TypeOK
<1>2. EmittedBounded' /\ IdentitiesPast' /\ Unbuilt'
  BY DEF IInv, EmittedBounded, IdentitiesPast, Unbuilt, TypeOK
<1>3. Separate'
  BY DEF Separate, Certifiable, Span
<1>4. WithinDtype'
  BY DEF IInv, TypeOK, WithinDtype, SameBindings, Certifiable, NoOverflow, Span
<1>5. CertificateCovers'
  <2> SUFFICES ASSUME eligible' PROVE CertificateCovers'
    BY DEF CertificateCovers
  <2>1. TypeOK /\ Certifiable
    BY DEF IInv
  <2> QED BY <2>1, CertifiableCovers DEF CertificateCovers
<1>6. UsedThroughout'
  BY DEF IInv, UsedThroughout, Unbuilt
<1>7. SkipsOnlyCertified'
  BY DEF SkipsOnlyCertified
<1> QED BY <1>1, <1>2, <1>3, <1>4, <1>5, <1>6, <1>7 DEF IInv

\* With an eligible certificate whose bindings are the same, a cycle of the
\* horizon is permitted.
LEMMA BeginKeeps == ASSUME IInv, BeginCertifiedRefresh PROVE IInv'
<1> USE SlotRefreshAssumption DEF BeginCertifiedRefresh, BeginRefresh, Idle, cohort, tables
<1>0. TypeOK /\ Unbuilt /\ UsedThroughout
  BY DEF IInv
<1>1. CASE (~certified \/ cycle >= Horizon) /\ guard' = (cycle < Horizon)
           /\ UNCHANGED <<invalidated, nextCycle>>
  <2>1. TypeOK'
    BY <1>0, <1>1 DEF TypeOK
  <2>2. UsedThroughout'
    BY <1>0, <1>1 DEF UsedThroughout, SameBindings, Unbuilt, TypeOK
  <2>5. SkipsOnlyCertified'
    BY <1>0, <1>1 DEF SkipsOnlyCertified
  <2>3. EmittedBounded' /\ IdentitiesPast' /\ Unbuilt' /\ Separate'
    BY <1>1 DEF IInv, EmittedBounded, IdentitiesPast, Unbuilt, Separate
  <2>4. WithinDtype' /\ CertificateCovers'
    BY <1>1 DEF IInv, WithinDtype, CertificateCovers, SameBindings
  <2> QED BY <2>1, <2>2, <2>3, <2>4, <2>5 DEF IInv
<1>2. CASE certified /\ cycle < Horizon /\ Permit /\ guard' = FALSE
  <2> USE <1>2 DEF Permit
  <2>1. TypeOK'
    <3>1. turn' \in 0..(GroupCount + 1) /\ nextCycle' \in 0..(cycle + 1)
      BY <1>0 DEF TypeOK
    <3>2. invalidated' \in BOOLEAN /\ guard' \in BOOLEAN
      BY <1>0 DEF TypeOK
    <3> QED BY <1>0, <3>1, <3>2 DEF TypeOK
  <2>2. UsedThroughout' /\ SkipsOnlyCertified'
    BY <1>0 DEF UsedThroughout, SkipsOnlyCertified, SameBindings, TypeOK
  <2>3. EmittedBounded' /\ IdentitiesPast' /\ Unbuilt' /\ Separate'
    BY DEF IInv, EmittedBounded, IdentitiesPast, Unbuilt, Separate
  <2>4. WithinDtype' /\ CertificateCovers'
    BY DEF IInv, WithinDtype, CertificateCovers, SameBindings
  <2> QED BY <2>1, <2>2, <2>3, <2>4 DEF IInv
<1>3. CASE certified /\ cycle < Horizon /\ Refuse /\ guard' = TRUE
  <2> USE <1>3 DEF Refuse
  <2>1. TypeOK'
    <3>1. turn' \in 0..(GroupCount + 1) /\ nextCycle' \in 0..(cycle + 1)
      BY <1>0 DEF TypeOK
    <3>2. invalidated' \in BOOLEAN /\ guard' \in BOOLEAN
      BY <1>0 DEF TypeOK
    <3> QED BY <1>0, <3>1, <3>2 DEF TypeOK
  <2>2. UsedThroughout' /\ SkipsOnlyCertified'
    BY <1>0 DEF UsedThroughout, SkipsOnlyCertified, SameBindings, TypeOK
  <2>3. EmittedBounded' /\ IdentitiesPast' /\ Unbuilt' /\ Separate'
    BY DEF IInv, EmittedBounded, IdentitiesPast, Unbuilt, Separate
  <2>4. WithinDtype' /\ CertificateCovers'
    BY DEF IInv, WithinDtype, CertificateCovers, SameBindings
  <2> QED BY <2>1, <2>2, <2>3, <2>4 DEF IInv
<1> QED BY <1>1, <1>2, <1>3

(***************************************************************************)
(* The refresh of a group.                                                 *)
(***************************************************************************)
LEMMA WriteKeeps ==
  ASSUME IInv, turn \in Groups, NEW content \in {"valid", "wild"},
         WriteMapping(turn, content), UNCHANGED <<certificate, guard>>
  PROVE  IInv'
<1> USE SlotRefreshAssumption DEF cohort, certificate
<1>0. TypeOK /\ IdentitiesPast
  BY DEF IInv
<1> DEFINE shared == {h \in Groups : <<turn, h>> \in overlaps}
<1>1. PICK table \in [shared -> Tables], seen \in SUBSET shared :
        /\ holes' = [h \in Groups |-> IF h \in shared THEN table[h] ELSE holes[h]]
        /\ identity' = [h \in Groups |-> IF h \in seen THEN identity[h] + 1 ELSE identity[h]]
  BY DEF WriteMapping
<1>2. /\ slots' = [slots EXCEPT ![turn] = content] /\ turn' = turn + 1
      /\ UNCHANGED <<cohort, overlaps, raised, certificate, guard>>
  BY DEF WriteMapping
<1>3. TypeOK'
  <2>1. holes' \in [Groups -> SUBSET Cells]
    BY <1>0, <1>1 DEF TypeOK
  <2>2. identity' \in [Groups -> Nat]
    BY <1>0, <1>1 DEF TypeOK
  <2>3. turn' \in 0..(GroupCount + 1) /\ slots' \in [Groups -> {"unset", "valid", "wild"}]
    BY <1>0, <1>2 DEF TypeOK, Groups
  <2> QED BY <2>1, <2>2, <2>3, <1>0, <1>2 DEF TypeOK
<1>4. IdentitiesPast'
  BY <1>0, <1>1, <1>2 DEF IdentitiesPast, TypeOK
<1>5. EmittedBounded' /\ Unbuilt' /\ Separate'
  BY <1>2 DEF IInv, EmittedBounded, Unbuilt, Separate
<1>6. ASSUME eligible PROVE holes' = holes /\ identity' = identity
  <2>1. shared = {}
    BY <1>1, <1>6 DEF IInv, Separate
  <2> QED BY <2>1, <1>0, <1>1 DEF TypeOK
<1>7. WithinDtype' /\ CertificateCovers'
  BY <1>2, <1>6 DEF IInv, WithinDtype, CertificateCovers, SameBindings
<1>8. UsedThroughout'
  <2>1. turn # 0 /\ turn' # 0
    BY <1>2 DEF Groups
  <2> QED BY <2>1, <1>2, <1>6 DEF IInv, UsedThroughout, SameBindings
<1>9. SkipsOnlyCertified'
  <2>1. turn # 0
    BY DEF Groups
  <2> QED BY <2>1, <1>2, <1>6 DEF IInv, SkipsOnlyCertified, SameBindings
<1> QED BY <1>3, <1>4, <1>5, <1>7, <1>8, <1>9 DEF IInv

LEMMA RaiseKeeps ==
  ASSUME IInv, raised' \in {"outside", "negative"},
         UNCHANGED <<cohort, tables, turn, slots>>, UNCHANGED <<certificate, guard>>
  PROVE  IInv'
<1> USE DEF cohort, tables, certificate
<1>1. TypeOK'
  BY DEF IInv, TypeOK
<1>2. EmittedBounded' /\ IdentitiesPast' /\ Unbuilt' /\ Separate'
  BY DEF IInv, EmittedBounded, IdentitiesPast, Unbuilt, Separate
<1>3. WithinDtype' /\ CertificateCovers'
  BY DEF IInv, WithinDtype, CertificateCovers, SameBindings
<1>4. UsedThroughout' /\ SkipsOnlyCertified'
  BY DEF IInv, UsedThroughout, SkipsOnlyCertified, SameBindings
<1> QED BY <1>1, <1>2, <1>3, <1>4 DEF IInv

LEMMA RefreshKeeps ==
  ASSUME IInv, RefreshGroup(guard), UNCHANGED <<certificate, guard>>
  PROVE  IInv'
<1>1. CASE WriteMapping(turn, "valid") \/ WriteMapping(turn, "wild")
  BY <1>1, WriteKeeps DEF RefreshGroup
<1>2. CASE raised' \in {"outside", "negative"} /\ UNCHANGED <<cohort, tables, turn, slots>>
  BY <1>2, RaiseKeeps
<1> QED BY <1>1, <1>2 DEF RefreshGroup

(***************************************************************************)
(* Acceptance: the positions use up at most a width of what is left.       *)
(***************************************************************************)
LEMMA AdvanceKeeps ==
  ASSUME IInv, AdvanceState, UNCHANGED <<certificate, guard>>
  PROVE  IInv'
<1> USE SlotRefreshAssumption DEF tables, certificate
<1>0. TypeOK /\ turn = GroupCount + 1 /\ turn # 0
  BY DEF IInv, AdvanceState
<1>1. PICK accepted \in [Requests -> 0..Width] :
        /\ position' = [r \in Requests |-> Wrapped(position[r] + accepted[r])]
        /\ emitted' = [r \in Requests |-> emitted[r] + accepted[r]]
  BY DEF AdvanceState
<1>2. /\ turn' = 0 /\ cycle' = cycle + 1
      /\ UNCHANGED <<origin, remaining, parked, tables, slots, raised, certificate, guard>>
  BY DEF AdvanceState
<1>3. TypeOK'
  <2>1. ASSUME NEW r \in Requests
        PROVE  Wrapped(position[r] + accepted[r]) \in (0 - MaxComputed - 1)..MaxComputed
    <3>1. position[r] \in (0 - MaxComputed - 1)..MaxComputed /\ accepted[r] \in 0..Width
      BY <1>0 DEF TypeOK
    <3> QED BY <3>1 DEF Wrapped
  <2>2. position' \in [Requests -> (0 - MaxComputed - 1)..MaxComputed]
    BY <1>1, <2>1
  <2>3. emitted' \in [Requests -> Nat]
    BY <1>0, <1>1 DEF TypeOK
  <2>4. cycle' \in Nat /\ nextCycle' \in 0..(cycle' + 1)
    BY <1>0, <1>2 DEF TypeOK
  <2> QED BY <2>2, <2>3, <2>4, <1>0, <1>2 DEF TypeOK
<1>4. EmittedBounded'
  <2> SUFFICES ASSUME NEW r \in Requests PROVE emitted'[r] <= Width * cycle'
    BY DEF EmittedBounded
  <2>1. emitted[r] <= Width * cycle /\ emitted[r] \in Nat /\ cycle \in Nat /\ accepted[r] \in 0..Width
    BY <1>0 DEF IInv, EmittedBounded, TypeOK
  <2>2. Width * cycle' = Width * cycle + Width
    BY <1>2, <2>1, OneCycleLess
  <2> QED BY <1>1, <2>1, <2>2
<1>5. IdentitiesPast' /\ Unbuilt' /\ Separate'
  BY <1>2 DEF IInv, IdentitiesPast, Unbuilt, Separate
<1>6. ASSUME eligible, ~invalidated, SameBindings, cycle' < Horizon, NEW r \in Requests
      PROVE  /\ position'[r] \in Int /\ position[r] \in Int
             /\ Width * (Horizon - cycle) \in Int /\ Width * (Horizon - cycle') \in Int
             /\ 0 <= position'[r] /\ position[r] <= position'[r]
             /\ position'[r] + Width * (Horizon - cycle') <= position[r] + Width * (Horizon - cycle)
             /\ position[r] + Width * (Horizon - cycle) <= MaxComputed
  <2>1. cycle \in Nat /\ cycle < Horizon /\ position[r] \in Int /\ accepted[r] \in 0..Width
    BY <1>0, <1>2, <1>6 DEF TypeOK
  <2>2. 0 <= position[r] /\ position[r] + Width * (Horizon - cycle) <= MaxComputed
    BY <1>6, <2>1 DEF IInv, WithinDtype
  <2>3. Width * (Horizon - cycle) >= Width
    BY <2>1, AtLeastOne
  <2>4. Width * (Horizon - cycle') = Width * (Horizon - cycle) - Width
    BY <1>2, <2>1, OneCycleLess
  <2>5. position'[r] = position[r] + accepted[r]
    BY <1>1, <2>1, <2>2, <2>3 DEF Wrapped
  <2> QED BY <2>1, <2>2, <2>3, <2>4, <2>5
<1>7. WithinDtype'
  <2> SUFFICES ASSUME eligible, ~invalidated, SameBindings, cycle' < Horizon, NEW r \in Requests
               PROVE  0 <= position'[r] /\ position'[r] + Width * (Horizon - cycle') <= MaxComputed
    BY <1>2 DEF WithinDtype, SameBindings
  <2> QED BY <1>6
<1>8. CertificateCovers'
  <2> SUFFICES ASSUME eligible, ~invalidated, SameBindings, NEW g \in Groups, NEW r \in Requests,
                      NEW p \in position'[r]..(position'[r] + Width * (Horizon - cycle') - 1)
               PROVE  /\ p \div BlockSize[g] \in 0..(Columns[g] - 1)
                      /\ <<r, p \div BlockSize[g]>> \notin holes[g]
    BY <1>2 DEF CertificateCovers, SameBindings
  <2>1. CASE cycle' < Horizon
    <3>1. p \in position[r]..(position[r] + Width * (Horizon - cycle) - 1)
      BY <1>6, <2>1
    <3> QED BY <3>1 DEF IInv, CertificateCovers
  <2>2. CASE cycle' >= Horizon
    <3>1. Width * (Horizon - cycle') <= 0
      BY <1>3, <2>2, NoneLeft DEF TypeOK
    <3>2. position'[r] \in Int /\ Width * (Horizon - cycle') \in Int
      BY <1>3 DEF TypeOK
    <3> QED BY <3>1, <3>2
  <2> QED BY <2>1, <2>2, <1>3 DEF TypeOK
<1>9. UsedThroughout' /\ SkipsOnlyCertified'
  BY <1>0, <1>2 DEF IInv, UsedThroughout, SkipsOnlyCertified, SameBindings, TypeOK
<1> QED BY <1>3, <1>4, <1>5, <1>7, <1>8, <1>9 DEF IInv

(***************************************************************************)
(* Parking: no request completes before the horizon.                       *)
(***************************************************************************)
LEMMA ParkKeeps ==
  ASSUME IInv, NEW r \in Requests, ParkCompleted(r), UNCHANGED <<certificate, guard>>
  PROVE  IInv'
<1> USE SlotRefreshAssumption DEF tables, certificate
<1>0. TypeOK
  BY DEF IInv
<1>1. /\ turn = 0 /\ emitted[r] >= remaining[r]
      /\ UNCHANGED <<cycle, origin, remaining, emitted, tables, turn, slots, certificate, guard>>
  BY DEF ParkCompleted, Idle
<1>2. TypeOK'
  <2>1. CASE ParkedPosition(r) <= MaxComputed
    <3>1. parked' = parked \cup {r} /\ position' = [position EXCEPT ![r] = ParkedPosition(r)]
          /\ raised' = raised
      BY <1>0, <2>1 DEF ParkCompleted, ParkedPosition, TypeOK
    <3>2. ParkedPosition(r) \in (0 - MaxComputed - 1)..MaxComputed
      BY <1>0, <2>1 DEF TypeOK, ParkedPosition
    <3>3. position' \in [Requests -> (0 - MaxComputed - 1)..MaxComputed] /\ parked' \subseteq Requests
      BY <1>0, <3>1, <3>2 DEF TypeOK
    <3> QED BY <1>0, <1>1, <3>1, <3>3 DEF TypeOK
  <2>2. CASE ~(ParkedPosition(r) <= MaxComputed)
    <3>1. raised' = "overflow" /\ UNCHANGED <<parked, position>>
      BY <2>2 DEF ParkCompleted
    <3> QED BY <1>0, <1>1, <3>1 DEF TypeOK
  <2> QED BY <2>1, <2>2
<1>3. EmittedBounded' /\ IdentitiesPast' /\ Unbuilt' /\ Separate'
  BY <1>1 DEF IInv, EmittedBounded, IdentitiesPast, Unbuilt, Separate
<1>4. ASSUME eligible PROVE cycle >= Horizon
  <2>1. emitted[r] <= Width * cycle /\ remaining[r] > Width * Horizon
    BY <1>4 DEF IInv, EmittedBounded, Separate
  <2>2. cycle \in Nat /\ emitted[r] \in Nat /\ remaining[r] \in Nat
    BY <1>0 DEF TypeOK
  <2>3. cycle <= Horizon => Width * cycle <= Width * Horizon
    BY <2>2, ProductGrows
  <2> QED BY <1>1, <2>1, <2>2, <2>3
<1>5. WithinDtype'
  BY <1>0, <1>1, <1>4 DEF WithinDtype, TypeOK
<1>6. CertificateCovers'
  <2> SUFFICES ASSUME eligible, NEW g \in Groups, NEW q \in Requests,
                      NEW p \in position'[q]..(position'[q] + Width * (Horizon - cycle) - 1)
               PROVE  FALSE
    BY <1>1 DEF CertificateCovers
  <2>1. Width * (Horizon - cycle) <= 0
    BY <1>0, <1>4, NoneLeft DEF TypeOK
  <2>2. position'[q] \in Int /\ Width * (Horizon - cycle) \in Int
    BY <1>0, <1>2 DEF TypeOK
  <2> QED BY <2>1, <2>2
<1>7. UsedThroughout' /\ SkipsOnlyCertified'
  BY <1>1 DEF IInv, UsedThroughout, SkipsOnlyCertified, SameBindings
<1> QED BY <1>2, <1>3, <1>5, <1>6, <1>7 DEF IInv

(***************************************************************************)
(* A replaced table is no longer one that the certificate has seen.        *)
(***************************************************************************)
LEMMA ChangeKeeps ==
  ASSUME IInv, NEW g \in Groups, ChangeTable(g), UNCHANGED <<certificate, guard>>
  PROVE  IInv'
<1> USE SlotRefreshAssumption DEF cohort, certificate
<1>0. TypeOK /\ IdentitiesPast
  BY DEF IInv
<1>1. PICK table \in Tables : holes' = [holes EXCEPT ![g] = table]
  BY DEF ChangeTable
<1>2. /\ turn = 0 /\ identity' = [identity EXCEPT ![g] = @ + 1]
      /\ UNCHANGED <<cohort, overlaps, turn, slots, raised, certificate, guard>>
  BY DEF ChangeTable, Idle
<1>3. TypeOK'
  <2>1. holes' \in [Groups -> SUBSET Cells] /\ identity' \in [Groups -> Nat]
    BY <1>0, <1>1, <1>2 DEF TypeOK
  <2> QED BY <2>1, <1>0, <1>2 DEF TypeOK
<1>4. IdentitiesPast' /\ ~SameBindings'
  <2>1. /\ \A h \in Groups : identity[h] \in Nat /\ identities[h] \in Nat /\ identities[h] <= identity[h]
        /\ \A h \in Groups : identity'[h] = IF h = g THEN identity[h] + 1 ELSE identity[h]
    BY <1>0, <1>2 DEF IdentitiesPast, TypeOK
  <2> QED BY <2>1, <1>2 DEF IdentitiesPast, SameBindings
<1>5. EmittedBounded' /\ Unbuilt' /\ Separate'
  BY <1>2 DEF IInv, EmittedBounded, Unbuilt, Separate
<1>6. WithinDtype' /\ CertificateCovers' /\ UsedThroughout' /\ SkipsOnlyCertified'
  BY <1>2, <1>4 DEF WithinDtype, CertificateCovers, UsedThroughout, SkipsOnlyCertified
<1> QED BY <1>3, <1>4, <1>5, <1>6 DEF IInv

(***************************************************************************)
(* The theorems.                                                           *)
(***************************************************************************)
LEMMA StutterKeeps == ASSUME IInv, UNCHANGED allVars PROVE IInv'
<1> USE DEF allVars, vars, cohort, tables, certificate
<1>1. TypeOK'
  BY DEF IInv, TypeOK
<1>2. EmittedBounded' /\ IdentitiesPast' /\ Unbuilt' /\ Separate'
  BY DEF IInv, EmittedBounded, IdentitiesPast, Unbuilt, Separate
<1>3. WithinDtype' /\ CertificateCovers'
  BY DEF IInv, WithinDtype, CertificateCovers, SameBindings
<1>4. UsedThroughout' /\ SkipsOnlyCertified'
  BY DEF IInv, UsedThroughout, SkipsOnlyCertified, SameBindings
<1> QED BY <1>1, <1>2, <1>3, <1>4 DEF IInv

LEMMA StepKeeps == IInv /\ [CertifiedNext]_allVars => IInv'
<1> SUFFICES ASSUME IInv, [CertifiedNext]_allVars PROVE IInv'
  OBVIOUS
<1>1. CASE BuildCertificate
  BY <1>1, BuildKeeps
<1>2. CASE BeginCertifiedRefresh
  BY <1>2, BeginKeeps
<1>3. CASE RefreshGroup(guard) /\ UNCHANGED <<certificate, guard>>
  BY <1>3, RefreshKeeps
<1>4. CASE Surroundings /\ UNCHANGED <<certificate, guard>>
  BY <1>4, AdvanceKeeps, ParkKeeps, ChangeKeeps DEF Surroundings
<1>5. CASE UNCHANGED allVars
  BY <1>5, StutterKeeps
<1> QED BY <1>1, <1>2, <1>3, <1>4, <1>5 DEF CertifiedNext

\* The inductive invariant holds for any requests, groups, tables and counts.
THEOREM Invariance == CertifiedSpec => []IInv
  BY InitInvariant, StepKeeps, PTL DEF CertifiedSpec, allVars

\* The counts of the cohort, the tables and the certificate keep their types;
\* positions stay within their dtype, wrapped or not.
THEOREM TypeCorrect == CertifiedSpec => []TypeOK
<1>1. IInv => TypeOK
  BY DEF IInv
<1> QED BY <1>1, Invariance, PTL

\* An eligible certificate covers all that a refresh can read until the
\* horizon, whatever counts are accepted.
THEOREM Covers == CertifiedSpec => []CertificateCovers
<1>1. IInv => CertificateCovers
  BY DEF IInv
<1> QED BY <1>1, Invariance, PTL

\* A certificate whose bindings stay the same is used in every cycle of the
\* horizon.
THEOREM Used == CertifiedSpec => []UsedThroughout
<1>1. IInv => UsedThroughout
  BY DEF IInv
<1> QED BY <1>1, Invariance, PTL

\* A group that is refreshed without its guards would have passed them.
LEMMA SkippedGuardPasses ==
  ASSUME IInv, RefreshGroup(guard)
  PROVE  RefreshGroup(cycle < Horizon)
<1> USE SlotRefreshAssumption
<1>0. TypeOK /\ turn \in Groups /\ turn # 0
  BY DEF IInv, RefreshGroup, Groups
<1>1. CASE guard = (cycle < Horizon)
  BY <1>1
<1>2. CASE guard # (cycle < Horizon)
  <2>1. ~guard /\ cycle < Horizon /\ eligible /\ ~invalidated /\ SameBindings
    BY <1>0, <1>2 DEF IInv, SkipsOnlyCertified, TypeOK
  <2>2. ASSUME NEW r \in Requests, NEW p \in Touched(r)
        PROVE  /\ p \div BlockSize[turn] \in 0..(Columns[turn] - 1)
               /\ <<r, p \div BlockSize[turn]>> \notin holes[turn]
    <3>1. cycle \in Nat /\ position[r] \in Int /\ Width * (Horizon - cycle) \in Int
      BY <1>0 DEF TypeOK
    <3>2. Width * (Horizon - cycle) >= Width
      BY <2>1, <3>1, AtLeastOne
    <3>3. p \in position[r]..(position[r] + Width * (Horizon - cycle) - 1)
      BY <3>1, <3>2 DEF Touched
    <3> QED BY <1>0, <2>1, <3>3 DEF IInv, CertificateCovers
  <2>3. ~OutOfRange(turn) /\ ~HitsHole(turn)
    BY <2>2 DEF OutOfRange, HitsHole
  <2> QED BY <2>3 DEF RefreshGroup
<1> QED BY <1>1, <1>2

LEMMA StepMaps == IInv /\ [CertifiedNext]_allVars => [Next]_vars
<1> SUFFICES ASSUME IInv, [CertifiedNext]_allVars PROVE [Next]_vars
  OBVIOUS
<1>1. CASE BuildCertificate
  BY <1>1 DEF BuildCertificate
<1>2. CASE BeginCertifiedRefresh
  BY <1>2 DEF BeginCertifiedRefresh, Next
<1>3. CASE RefreshGroup(guard)
  BY <1>3, SkippedGuardPasses DEF Next
<1>4. CASE Surroundings
  BY <1>4 DEF Next
<1>5. CASE UNCHANGED allVars
  BY <1>5 DEF allVars
<1> QED BY <1>1, <1>2, <1>3, <1>4, <1>5 DEF CertifiedNext

\* The refresh with the certificate implements the refresh with all its
\* guards: nothing is lost by not looking.
THEOREM GuardsKept == CertifiedSpec => KeepsGuards
<1>1. CertifiedInit => Init
  BY DEF CertifiedInit
<1> QED BY <1>1, Invariance, StepMaps, PTL DEF CertifiedSpec, allVars, KeepsGuards, Spec
==============================================================================
