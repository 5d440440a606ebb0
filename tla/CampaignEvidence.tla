--------------------------- MODULE CampaignEvidence ---------------------------
(***************************************************************************)
(* What the rest of the program may rely on about one campaign and the      *)
(* kill switch, whatever the control plane does underneath: the campaign is *)
(* live (running_simulation) only from a step taken while the switch is     *)
(* clear, every interruption uses up the live revision, and no clear leaves *)
(* a live campaign behind. ControlPlane implements this specification, and  *)
(* ExternalActions takes its steps as the environment of the pipeline.      *)
(***************************************************************************)
EXTENDS Integers

VARIABLES killActive,   \* isKillSwitchActive()
          live,         \* the campaign row is in state running_simulation
          revision      \* the campaign row's revision

evidence == <<killActive, live, revision>>

EvidenceTypeOK ==
  /\ killActive \in BOOLEAN
  /\ live \in BOOLEAN
  /\ revision \in Nat

EvidenceInit ==
  /\ killActive = TRUE
  /\ live = FALSE
  /\ revision = 0

(* setKillSwitch: the first, fail-safe commit does not touch the campaign.  *)
EngageKill ==
  /\ killActive' = TRUE
  /\ UNCHANGED <<live, revision>>

(* A kill-switch pause, a policy change or any transition out of running.   *)
Interrupt ==
  /\ live
  /\ live' = FALSE
  /\ revision' = revision + 1
  /\ UNCHANGED killActive

(* Any other change of the row.                                             *)
Bump ==
  /\ ~live
  /\ revision' = revision + 1
  /\ UNCHANGED <<killActive, live>>

GoLive ==
  /\ ~killActive
  /\ ~live
  /\ live' = TRUE
  /\ revision' = revision + 1
  /\ UNCHANGED killActive

(* clearKillSwitch pauses whatever could still execute in its transaction.  *)
ClearKill ==
  /\ killActive
  /\ killActive' = FALSE
  /\ live' = FALSE
  /\ revision' \in {revision, revision + 1}
  /\ live => revision' = revision + 1

EvidenceNext == EngageKill \/ Interrupt \/ Bump \/ GoLive \/ ClearKill

EvidenceSpec == EvidenceInit /\ [][EvidenceNext]_evidence
=============================================================================
