-------------------------- MODULE StartupCertificate --------------------------
(***************************************************************************)
(* The startup slot certificate (runtime/startup_slot_certificate.py), in  *)
(* the refresh that asks it (scripts/loop081_startup_certificate_patch_    *)
(* run678.py): computed once from the positions of a new cohort, it lets   *)
(* the refresh skip the guards of the first cycles, until a binding has    *)
(* changed.                                                                *)
(***************************************************************************)
EXTENDS SlotRefresh

VARIABLES
  certified,     \* whether a certificate has been built
  eligible,      \* record['eligible']
  invalidated,   \* record['invalidated']
  nextCycle,     \* _next_cycle, and record['used_cycles']
  identities,    \* _identities
  guard          \* guard_required of the refresh under way

certificate == <<certified, eligible, invalidated, nextCycle, identities>>

CertifiedInit ==
  /\ Init
  /\ certified = FALSE /\ eligible = FALSE /\ invalidated = FALSE
  /\ nextCycle = 0 /\ identities = identity
  /\ guard = FALSE

(* The positions that the certified cycles can touch.                      *)
Span == Width * Horizon

ReachableColumns(r, g) ==
  (position[r] \div BlockSize[g])..((position[r] + Span - 1) \div BlockSize[g])

NoOverflow == \A r \in Requests : position[r] + Span <= MaxComputed

Certifiable ==
  /\ cycle = 0
  /\ \A r \in Requests : position[r] >= 0
  /\ NoOverflow
  /\ \A r \in Requests : remaining[r] > Span   \* no early parking
  /\ overlaps = {}
  /\ \A g \in Groups, r \in Requests : \A c \in ReachableColumns(r, g) :
       c < Columns[g] /\ <<r, c>> \notin holes[g]

(* Other layouts, modes and shapes are rejected; so is a table whose rows  *)
(* start too far apart to be copied.                                       *)
BuildCertificate ==
  /\ Idle /\ cycle = 0 /\ ~certified
  /\ certified' = TRUE
  /\ eligible' \in {FALSE, Certifiable}
  /\ identities' = identity
  /\ UNCHANGED <<vars, invalidated, nextCycle, guard>>

SameBindings == identity = identities

\* Mutated form: the cycle that is expected next stays the same.
PermitAgain ==
  /\ eligible /\ ~invalidated /\ cycle < Horizon
  /\ cycle = nextCycle /\ SameBindings
  /\ UNCHANGED <<invalidated, nextCycle>>

\* Mutated form: the bindings are not looked at again.
PermitUnseen ==
  /\ eligible /\ ~invalidated /\ cycle < Horizon
  /\ cycle = nextCycle
  /\ nextCycle' = nextCycle + 1 /\ UNCHANGED invalidated

Permit ==
  /\ eligible /\ ~invalidated /\ cycle < Horizon
  /\ cycle = nextCycle /\ SameBindings
  /\ nextCycle' = nextCycle + 1 /\ UNCHANGED invalidated

Refuse ==
  /\ UNCHANGED nextCycle
  /\ \/ /\ ~eligible \/ invalidated \/ cycle >= Horizon
        /\ UNCHANGED invalidated
     \/ /\ eligible /\ ~invalidated /\ cycle < Horizon
        /\ cycle # nextCycle \/ ~SameBindings
        /\ invalidated' = TRUE

BeginCertifiedRefresh ==
  /\ BeginRefresh
  /\ UNCHANGED <<certified, eligible, identities>>
  /\ \/ /\ ~certified \/ cycle >= Horizon
        /\ guard' = (cycle < Horizon) /\ UNCHANGED <<invalidated, nextCycle>>
     \/ /\ certified /\ cycle < Horizon
        /\ \/ Permit /\ guard' = FALSE
           \/ Refuse /\ guard' = TRUE

CertifiedNext ==
  \/ BuildCertificate
  \/ BeginCertifiedRefresh
  \/ RefreshGroup(guard) /\ UNCHANGED <<certificate, guard>>
  \/ Surroundings /\ UNCHANGED <<certificate, guard>>

CertifiedSpec == CertifiedInit /\ [][CertifiedNext]_<<vars, certificate, guard>>
=============================================================================
