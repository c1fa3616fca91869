--------------------- MODULE StartupCertificateProperties ---------------------
(***************************************************************************)
(* Properties of the startup slot certificate.                             *)
(***************************************************************************)
EXTENDS StartupCertificate

\* The variables of the cohort, the tables and the certificate keep their
\* types; the counts stay within their dtype, and within the horizon a permit
\* has been used for no cycle that has not begun.
TypeOK ==
  /\ cycle \in Nat
  /\ origin \in [Requests -> 0..MaxComputed]
  /\ position \in [Requests -> (0 - MaxComputed - 1)..MaxComputed]
  /\ remaining \in [Requests -> Nat] /\ emitted \in [Requests -> Nat]
  /\ parked \subseteq Requests
  /\ holes \in [Groups -> SUBSET Cells]
  /\ overlaps \subseteq Groups \X Groups
  /\ identity \in [Groups -> Nat] /\ identities \in [Groups -> Nat]
  /\ turn \in 0..(GroupCount + 1)
  /\ slots \in [Groups -> {"unset", "valid", "wild"}]
  /\ raised \in {"no", "outside", "negative", "overflow"}
  /\ certified \in BOOLEAN /\ eligible \in BOOLEAN /\ invalidated \in BOOLEAN
  /\ nextCycle \in 0..(cycle + 1)
  /\ guard \in BOOLEAN

\* As long as a certificate would permit the next cycle, or has permitted the
\* one under way, nothing that a refresh can read until the horizon is outside
\* a table or a hole, however the accepted counts have been distributed.
CertificateCovers ==
  eligible /\ ~invalidated /\ SameBindings =>
    \A g \in Groups, r \in Requests :
      \A p \in position[r]..(position[r] + Width * (Horizon - cycle) - 1) :
        /\ p \div BlockSize[g] \in 0..(Columns[g] - 1)
        /\ <<r, p \div BlockSize[g]>> \notin holes[g]

\* An eligible certificate whose bindings have not changed spares every guard
\* of the horizon: each cycle that has begun was permitted.
UsedThroughout ==
  eligible /\ SameBindings =>
    ~invalidated /\ (cycle < Horizon => nextCycle = cycle + (IF turn = 0 THEN 0 ELSE 1))

\* The refresh with the certificate does what the refresh with all its guards
\* does: it raises the same errors at the same groups and writes no mapping
\* from a lookup that a guard would have refused.
KeepsGuards == Spec
=============================================================================
