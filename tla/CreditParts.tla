------------------------------ MODULE CreditParts -----------------------------
(***************************************************************************)
(* What users earn and spend by its parts: credits and compute as the      *)
(* credit service books them (CreditLedger), and the pet campaign, whose   *)
(* uses and rewards write the same rows (RescueTasks).  The books of the   *)
(* one are not those of the other: a use of the campaign is explained by   *)
(* its bills.  part says which of the two moves.                           *)
(***************************************************************************)
EXTENDS RescueTasks

VARIABLE part

LedgerPart == part = "ledger" /\ Next /\ UNCHANGED << part, rvars >>
CampaignPart == part = "campaign" /\ RescueNext /\ UNCHANGED part

CreditSpec == RescueInit /\ [][LedgerPart \/ CampaignPart]_<< part, lvars, rvars >>

-----------------------------------------------------------------------------
(* Properties *)

\* The books of credits and compute agree, up to failures; uses and rewards of the
\* campaign are rationed by day.
BooksByDay ==
  /\ part = "ledger" => LedgerBalances
  /\ part = "campaign" => RationedByDay
=============================================================================
