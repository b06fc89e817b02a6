------------------------------ MODULE Promotion -----------------------------
(***************************************************************************)
(* The promotion of certified candidates to the active release: validation *)
(* and certification, the safe promotion with its gate for new entries,    *)
(* and rollback.  Each call is synchronous, hence one step (the lock of    *)
(* the coordinator is held only inside one call); the caller orders them   *)
(* as it likes, except that it promotes what certify() passed.             *)
(***************************************************************************)
EXTENDS Integers

CONSTANTS
  Challenger,    \* candidates that are validated
  MaxPromotions  \* bound: promotion ids

ASSUME PromotionAssumption == MaxPromotions \in Nat

VARIABLES
  verdict,    \* candidate -> result of its last certification
  records,    \* promotion id -> PromotionRecord
  snapshots,  \* promotion ids with a ChampionSnapshot
  active,     \* promotion whose release is active, or NoRelease
  gate        \* NewEntryGate.state

promotionVars == <<verdict, records, snapshots, active, gate>>

PromotionId == 1..MaxPromotions
NoRelease   == 0
NoRecord    == [candidate |-> "none", status |-> "none"]

PromotionInit ==
  /\ verdict = [c \in Challenger |-> "none"]
  /\ records = [p \in PromotionId |-> NoRecord]
  /\ snapshots = {}
  /\ active = NoRelease
  /\ gate = "OPEN"

-----------------------------------------------------------------------------
(* ValidationPipeline.run and certify.                                     *)

Certified(gatesPass, guardrailsHold) ==
  IF ~guardrailsHold THEN "QUARANTINE" ELSE IF gatesPass THEN "PASS" ELSE "FAIL"

Validate(c, gatesPass, guardrailsHold) ==
  /\ verdict' = [verdict EXCEPT ![c] = Certified(gatesPass, guardrailsHold)]
  /\ UNCHANGED <<records, snapshots, active, gate>>

-----------------------------------------------------------------------------
(* SafePromotionCoordinator.  Its lock is held only inside one call.       *)

GateAfterPromote(healthy) == "OPEN"

\* evaluate_safe_window holds; a refusal changes nothing.  An id that was promoted before
\* is promoted again: its snapshot and its record are replaced.
Promote(p, c, healthy) ==
  /\ verdict[c] = "PASS"
  /\ snapshots' = snapshots \cup {p}
  /\ records' = [records EXCEPT ![p] =
       [candidate |-> c, status |-> IF healthy THEN "ACTIVE" ELSE "ROLLING_BACK"]]
  /\ active' = IF healthy THEN p ELSE active
  /\ gate' = GateAfterPromote(healthy)
  /\ UNCHANGED verdict

\* Variant: a rollback reactivates the release.
Reactivated(p) == p

AfterRollback(p) == NoRelease

Rollback(p, healthy) ==
  /\ p \in snapshots
  /\ active' = IF healthy THEN AfterRollback(p) ELSE active
  /\ gate' = IF healthy THEN "OPEN" ELSE "BLOCKED_FOR_UPGRADE"
  /\ records' = [records EXCEPT ![p].status = IF healthy THEN "ROLLED_BACK" ELSE "SAFE_DEGRADED"]
  /\ UNCHANGED <<verdict, snapshots>>

-----------------------------------------------------------------------------
PromotionNext ==
  \/ \E c \in Challenger :
       \/ \E gatesPass, guardrailsHold \in BOOLEAN : Validate(c, gatesPass, guardrailsHold)
       \/ \E p \in PromotionId, healthy \in BOOLEAN : Promote(p, c, healthy)
  \/ \E p \in PromotionId, healthy \in BOOLEAN : Rollback(p, healthy)

-----------------------------------------------------------------------------
\* New entries are only blocked while some release is degraded: no promotion, failed
\* or not, leaves the gate closed behind it.
GateBlockedOnlyWhenDegraded ==
  gate = "BLOCKED_FOR_UPGRADE" => \E p \in snapshots : records[p].status = "SAFE_DEGRADED"

\* The active release belongs to a promotion that was not rolled back since, whatever
\* other promotions fail or are rolled back meanwhile.  (One that is promoted again and
\* found unhealthy says ROLLING_BACK although its release is still the active one.)
ActiveNotRolledBack ==
  active # NoRelease => records[active].status \in {"ACTIVE", "SAFE_DEGRADED", "ROLLING_BACK"}
=============================================================================
