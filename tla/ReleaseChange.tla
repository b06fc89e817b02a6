---------------------------- MODULE ReleaseChange ----------------------------
(***************************************************************************)
(* What may come of a review: a change that is registered and edited in    *)
(* its workspace (CandidateChange), and one that is certified and becomes  *)
(* the active release (Promotion).  No code joins the two: the registry is *)
(* not read at a promotion.                                                *)
(***************************************************************************)
EXTENDS CandidateChange, Promotion

releaseVars == <<candidateVars, promotionVars>>

ReleaseInit == CandidateInit /\ PromotionInit

ReleaseNext ==
  \/ CandidateNext /\ UNCHANGED promotionVars
  \/ PromotionNext /\ UNCHANGED candidateVars

-----------------------------------------------------------------------------
\* What was refused, rolled back or forbidden stays out, and leaves no trace in
\* the gate of new entries.
RefusedStaysOut ==
  NoSecondChance /\ ChangeSetInPolicy /\ GateBlockedOnlyWhenDegraded /\ ActiveNotRolledBack
=============================================================================
