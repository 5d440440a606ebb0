-------------------------- MODULE LocalProductProofs --------------------------
(***************************************************************************)
(* Proofs about the guided local product, for every set of names, policies, *)
(* budgets and environments. Its snapshots are kept apart; the inductive    *)
(* invariant says what each of them is at every step of the guide, as long  *)
(* as nothing has been halted.                                              *)
(***************************************************************************)
EXTENDS LocalProduct, TLAPS

(* Which fields the product and its snapshots have.                         *)
ProductFields ==
  {"step", "revision", "last", "terminal", "onboarding", "program", "policy",
   "campaign", "identities", "journey", "inventory", "candidate", "evidence",
   "report"}

FieldsInv ==
  /\ DOMAIN product = ProductFields
  /\ "status" \in DOMAIN product.policy
  /\ product.policy.status # "none" => "hash" \in DOMAIN product.policy
  /\ "status" \in DOMAIN product.campaign
  /\ product.campaign.status # "none" =>
       DOMAIN product.campaign = {"status", "revision", "hash", "budget"}
  /\ "status" \in DOMAIN product.program
  /\ product.program.status # "none" =>
       DOMAIN product.program = {"status", "name", "revision", "excluded"}
  /\ DOMAIN product.journey = {"status"}
  /\ "status" \in DOMAIN product.candidate
  /\ product.candidate.status # "none" =>
       DOMAIN product.candidate = {"status", "budget"}
  /\ "status" \in DOMAIN product.report
  /\ product.report.status # "none" =>
       DOMAIN product.report = {"status", "bundle"}

(* What each snapshot is at each step of the guide, counted from 0.         *)
ProgramAt(s) == s >= 8 => product.program.status = "active"

PolicyAt(s) ==
  product.policy.status =
    IF s <= 8 THEN "none"
    ELSE IF s = 9 THEN "imported_pending_acceptance" ELSE "accepted_local"

CampaignAt(s) ==
  product.campaign.status =
    IF s <= 10 THEN "none"
    ELSE IF s = 11 THEN "awaiting_local_approval"
    ELSE IF s <= 13 THEN "approved_local"
    ELSE IF s <= 20 THEN "running_local_simulation"
    ELSE "completed_local_only"

IdentitiesAt(s) == product.identities = "none" <=> s <= 12

JourneyAt(s) ==
  product.journey.status =
    IF s <= 13 THEN "none"
    ELSE IF s = 14 THEN "simulated_pending_inventory"
    ELSE "completed_local_simulation"

InventoryAt(s) == product.inventory = Nothing <=> s <= 14

CandidateAt(s) ==
  product.candidate.status =
    IF s <= 15 THEN "none"
    ELSE IF s = 16 THEN "generated" ELSE "verified_local_fixture"

EvidenceAt(s) == product.evidence = Nothing <=> s <= 17

ReportAt(s) ==
  product.report.status =
    IF s <= 18 THEN "none"
    ELSE IF s = 19 THEN "draft"
    ELSE IF s = 20 THEN "queued_for_local_review" ELSE "approved_local_only"

Shape(s) ==
  /\ ProgramAt(s)
  /\ PolicyAt(s)
  /\ CampaignAt(s)
  /\ IdentitiesAt(s)
  /\ JourneyAt(s)
  /\ InventoryAt(s)
  /\ CandidateAt(s)
  /\ EvidenceAt(s)
  /\ ReportAt(s)

(* A snapshot without a status is none.                                     *)
NothingInv ==
  /\ product.policy.status = "none" <=> product.policy = Nothing
  /\ product.campaign.status = "none" <=> product.campaign = Nothing
  /\ product.program.status = "none" <=> product.program = Nothing
  /\ product.candidate.status = "none" <=> product.candidate = Nothing
  /\ product.report.status = "none" <=> product.report = Nothing

InventoryInv ==
  product.inventory # Nothing =>
    product.inventory.hash = product.campaign.hash

Inv ==
  /\ product.step \in 0..21
  /\ FieldsInv
  /\ NothingInv
  /\ product.terminal = "none" => Shape(product.step)
  /\ product.terminal # "none" => HaltsTogether
  /\ product.terminal \in {"none"} \cup TerminalReasons
  /\ OneLineage
  /\ InventoryInv

-----------------------------------------------------------------------------
(* The guide                                                                *)

(* The guide has twenty-one steps.                                          *)
LEMMA GuideLength == Len(GuidedActions) = 21
  BY DEF GuidedActions

(* The step at which an action is the next one.                             *)
StepOf ==
  [onboarding_system_check |-> 0,
   onboarding_secret_store_check |-> 1,
   onboarding_select_simulation |-> 2,
   onboarding_configure_testmail |-> 3,
   onboarding_disable_ai |-> 4,
   onboarding_confirm_boundaries |-> 5,
   onboarding_initialize_demo |-> 6,
   create_program |-> 7,
   import_policy |-> 8,
   accept_policy |-> 9,
   create_campaign |-> 10,
   approve_campaign |-> 11,
   prepare_identities |-> 12,
   start_journey |-> 13,
   inspect_inventory |-> 14,
   generate_candidates |-> 15,
   verify_candidate |-> 16,
   open_evidence |-> 17,
   create_report |-> 18,
   queue_report_review |-> 19,
   approve_local_report |-> 20]

(* An action that is next finds the product at its step, not halted.        *)
LEMMA StepIsKnown ==
  ASSUME Inv, NEW action \in DOMAIN StepOf, NextIs(action)
  PROVE  product.step = StepOf[action] /\ product.terminal = "none"
  <1>1. product.step \in 0..20 /\ product.terminal = "none"
    BY GuideLength DEF Inv, NextIs, Finished
  <1>2. GuidedActions[product.step + 1] = action
    BY DEF NextIs, NextAction
  <1>3. StepOf[GuidedActions[product.step + 1]] = product.step
    BY <1>1 DEF GuidedActions, StepOf
  <1> QED
    BY <1>1, <1>2, <1>3

-----------------------------------------------------------------------------
(* Which snapshots a call leaves alone.                                     *)
SameProgram == product'.program = product.program
SamePolicy == product'.policy = product.policy
SameCampaign == product'.campaign = product.campaign
SameIdentities == product'.identities = product.identities
SameJourney == product'.journey = product.journey
SameInventory == product'.inventory = product.inventory
SameCandidate == product'.candidate = product.candidate
SameEvidence == product'.evidence = product.evidence
SameReport == product'.report = product.report

USE DEF SameProgram, SamePolicy, SameCampaign, SameIdentities, SameJourney,
        SameInventory, SameCandidate, SameEvidence, SameReport

-----------------------------------------------------------------------------
(* Every step keeps the invariant. First what a call does to the fields,    *)
(* then what that makes of the invariant.                                   *)

(* The seven onboarding actions touch no other snapshot.                    *)
Onboards(at) ==
  \/ SystemCheck(at)
  \/ SecretStoreCheck(at)
  \/ \E action \in DOMAIN Confirmation : Confirm(action, at)
  \/ \E schema \in Mailboxes : ConfigureTestmail(schema, at)
  \/ InitializeDemo(at)

LEMMA OnboardingStep ==
  ASSUME Inv, NEW at, Onboards(at)
  PROVE  Inv'
  <1> DEFINE Onboarded ==
        /\ product.step \in 0..6 /\ product.terminal = "none"
        /\ DOMAIN product' = ProductFields
        /\ product'.step = product.step + 1 /\ product'.terminal = "none"
        /\ SameProgram /\ SamePolicy /\ SameCampaign /\ SameIdentities
        /\ SameJourney /\ SameInventory /\ SameCandidate /\ SameEvidence
        /\ SameReport
  <1>1. ASSUME SystemCheck(at)
        PROVE  Onboarded
    BY <1>1, StepIsKnown
    DEF SystemCheck, Guided, StepOf, Inv, FieldsInv, ProductFields
  <1>2. ASSUME SecretStoreCheck(at)
        PROVE  Onboarded
    BY <1>2, StepIsKnown
    DEF SecretStoreCheck, Guided, StepOf, Inv, FieldsInv, ProductFields
  <1>3. ASSUME \E action \in DOMAIN Confirmation : Confirm(action, at)
        PROVE  Onboarded
    BY <1>3, StepIsKnown
    DEF Confirm, Confirmation, Guided, StepOf, Inv, FieldsInv, ProductFields
  <1>4. ASSUME \E schema \in Mailboxes : ConfigureTestmail(schema, at)
        PROVE  Onboarded
    BY <1>4, StepIsKnown
    DEF ConfigureTestmail, Guided, StepOf, Inv, FieldsInv, ProductFields
  <1>5. ASSUME InitializeDemo(at)
        PROVE  Onboarded
    BY <1>5, StepIsKnown
    DEF InitializeDemo, Guided, StepOf, Inv, FieldsInv, ProductFields
  <1>6. Onboarded
    BY <1>1, <1>2, <1>3, <1>4, <1>5 DEF Onboards
  <1> QED
    BY <1>6
    DEF Inv, FieldsInv, ProductFields, NothingInv, Nothing, Shape, ProgramAt,
        PolicyAt, CampaignAt, IdentitiesAt, JourneyAt, InventoryAt,
        CandidateAt, EvidenceAt, ReportAt, OneLineage, InventoryInv

LEMMA CreateProgramStep ==
  ASSUME Inv, NEW name, NEW excluded, NEW at, CreateProgram(name, excluded, at)
  PROVE  Inv'
  <1>1. product.step = 7 /\ product.terminal = "none"
    BY StepIsKnown DEF CreateProgram, Guided, StepOf
  <1>2. /\ DOMAIN product' = ProductFields
        /\ product'.step = 8 /\ product'.terminal = "none"
        /\ SamePolicy /\ SameCampaign /\ SameIdentities /\ SameJourney
        /\ SameInventory /\ SameCandidate /\ SameEvidence /\ SameReport
        /\ product'.program = [status |-> "active", name |-> name,
                               revision |-> 0, excluded |-> excluded]
    BY <1>1 DEF CreateProgram, Guided, Inv, FieldsInv, ProductFields
  <1> QED
    BY <1>1, <1>2
    DEF Inv, FieldsInv, ProductFields, NothingInv, Nothing, Shape, ProgramAt,
        PolicyAt, CampaignAt, IdentitiesAt, JourneyAt, InventoryAt,
        CandidateAt, EvidenceAt, ReportAt, OneLineage, InventoryInv

LEMMA ImportPolicyStep ==
  ASSUME Inv, NEW representation, NEW at, ImportPolicy(representation, at)
  PROVE  Inv'
  <1>1. product.step = 8 /\ product.terminal = "none"
    BY StepIsKnown DEF ImportPolicy, Guided, StepOf
  <1>2. /\ DOMAIN product' = ProductFields
        /\ product'.step = 9 /\ product'.terminal = "none"
        /\ SameCampaign /\ SameIdentities /\ SameJourney /\ SameInventory
        /\ SameCandidate /\ SameEvidence /\ SameReport
        /\ DOMAIN product'.program = DOMAIN product.program
        /\ product'.program.status = product.program.status
        /\ product'.policy = [status |-> "imported_pending_acceptance",
                              hash |-> PolicyHash(product.program.excluded,
                                                  representation)]
    BY <1>1
    DEF ImportPolicy, Guided, Inv, FieldsInv, ProductFields, ProgramAt, Shape
  <1> QED
    BY <1>1, <1>2
    DEF Inv, FieldsInv, ProductFields, NothingInv, Nothing, Shape, ProgramAt,
        PolicyAt, CampaignAt, IdentitiesAt, JourneyAt, InventoryAt,
        CandidateAt, EvidenceAt, ReportAt, OneLineage, InventoryInv

LEMMA AcceptPolicyStep ==
  ASSUME Inv, NEW at, AcceptPolicy(at)
  PROVE  Inv'
  <1>1. product.step = 9 /\ product.terminal = "none"
    BY StepIsKnown DEF AcceptPolicy, Guided, StepOf
  <1>2. /\ DOMAIN product' = ProductFields
        /\ product'.step = 10 /\ product'.terminal = "none"
        /\ SameProgram /\ SameCampaign /\ SameIdentities /\ SameJourney
        /\ SameInventory /\ SameCandidate /\ SameEvidence /\ SameReport
        /\ product'.policy.status = "accepted_local"
        /\ DOMAIN product'.policy = DOMAIN product.policy
        /\ product'.policy.hash = product.policy.hash
    BY <1>1
    DEF AcceptPolicy, Guided, Inv, FieldsInv, ProductFields, PolicyAt, Shape
  <1> QED
    BY <1>1, <1>2
    DEF Inv, FieldsInv, ProductFields, NothingInv, Nothing, Shape, ProgramAt,
        PolicyAt, CampaignAt, IdentitiesAt, JourneyAt, InventoryAt,
        CandidateAt, EvidenceAt, ReportAt, OneLineage, InventoryInv

LEMMA CreateCampaignStep ==
  ASSUME Inv, NEW budget, NEW at, CreateCampaign(budget, at)
  PROVE  Inv'
  <1>1. product.step = 10 /\ product.terminal = "none"
    BY StepIsKnown DEF CreateCampaign, Guided, StepOf
  <1>2. /\ DOMAIN product' = ProductFields
        /\ product'.step = 11 /\ product'.terminal = "none"
        /\ SameProgram /\ SamePolicy /\ SameIdentities /\ SameJourney
        /\ SameInventory /\ SameCandidate /\ SameEvidence /\ SameReport
        /\ product'.campaign = [status |-> "awaiting_local_approval",
                                revision |-> 0,
                                hash |-> product.policy.hash,
                                budget |-> budget]
    BY <1>1 DEF CreateCampaign, Guided, Inv, FieldsInv, ProductFields
  <1> QED
    BY <1>1, <1>2
    DEF Inv, FieldsInv, ProductFields, NothingInv, Nothing, Shape, ProgramAt,
        PolicyAt, CampaignAt, IdentitiesAt, JourneyAt, InventoryAt,
        CandidateAt, EvidenceAt, ReportAt, OneLineage, InventoryInv

LEMMA ApproveCampaignStep ==
  ASSUME Inv, NEW at, ApproveCampaign(at)
  PROVE  Inv'
  <1>1. product.step = 11 /\ product.terminal = "none"
    BY StepIsKnown DEF ApproveCampaign, Guided, StepOf
  <1>2. /\ DOMAIN product' = ProductFields
        /\ product'.step = 12 /\ product'.terminal = "none"
        /\ SameProgram /\ SamePolicy /\ SameIdentities /\ SameJourney
        /\ SameInventory /\ SameCandidate /\ SameEvidence /\ SameReport
        /\ product'.campaign = Revised(product.campaign, "approved_local")
    BY <1>1 DEF ApproveCampaign, Guided, Inv, FieldsInv, ProductFields, Shape
  <1>3. /\ product'.campaign.status = "approved_local"
        /\ DOMAIN product'.campaign = DOMAIN product.campaign
        /\ product'.campaign.hash = product.campaign.hash
        /\ product'.campaign.budget = product.campaign.budget
    BY <1>1, <1>2 DEF Inv, FieldsInv, Shape, CampaignAt, Revised
  <1> QED
    BY <1>1, <1>2, <1>3
    DEF Inv, FieldsInv, ProductFields, NothingInv, Nothing, Shape, ProgramAt,
        PolicyAt, CampaignAt, IdentitiesAt, JourneyAt, InventoryAt,
        CandidateAt, EvidenceAt, ReportAt, OneLineage, InventoryInv

LEMMA PrepareIdentitiesStep ==
  ASSUME Inv, NEW at, PrepareIdentities(at)
  PROVE  Inv'
  <1>1. product.step = 12 /\ product.terminal = "none"
    BY StepIsKnown DEF PrepareIdentities, Guided, StepOf
  <1>2. /\ DOMAIN product' = ProductFields
        /\ product'.step = 13 /\ product'.terminal = "none"
        /\ SameProgram /\ SamePolicy /\ SameCampaign /\ SameJourney
        /\ SameInventory /\ SameCandidate /\ SameEvidence /\ SameReport
        /\ product'.identities = "inactive"
    BY <1>1 DEF PrepareIdentities, Guided, Inv, FieldsInv, ProductFields
  <1> QED
    BY <1>1, <1>2
    DEF Inv, FieldsInv, ProductFields, NothingInv, Nothing, Shape, ProgramAt,
        PolicyAt, CampaignAt, IdentitiesAt, JourneyAt, InventoryAt,
        CandidateAt, EvidenceAt, ReportAt, OneLineage, InventoryInv

LEMMA StartJourneyStep ==
  ASSUME Inv, NEW at, StartJourney(at)
  PROVE  Inv'
  <1>1. product.step = 13 /\ product.terminal = "none"
    BY StepIsKnown DEF StartJourney, Guided, StepOf
  <1>2. /\ DOMAIN product' = ProductFields
        /\ product'.step = 14 /\ product'.terminal = "none"
        /\ SameProgram /\ SamePolicy /\ SameIdentities /\ SameInventory
        /\ SameCandidate /\ SameEvidence /\ SameReport
        /\ product'.journey = [status |-> "simulated_pending_inventory"]
        /\ product'.campaign =
             Revised(product.campaign, "running_local_simulation")
    BY <1>1 DEF StartJourney, Guided, Inv, FieldsInv, ProductFields, Shape
  <1>3. /\ product'.campaign.status = "running_local_simulation"
        /\ DOMAIN product'.campaign = DOMAIN product.campaign
        /\ product'.campaign.hash = product.campaign.hash
        /\ product'.campaign.budget = product.campaign.budget
    BY <1>1, <1>2 DEF Inv, FieldsInv, Shape, CampaignAt, Revised
  <1> QED
    BY <1>1, <1>2, <1>3
    DEF Inv, FieldsInv, ProductFields, NothingInv, Nothing, Shape, ProgramAt,
        PolicyAt, CampaignAt, IdentitiesAt, JourneyAt, InventoryAt,
        CandidateAt, EvidenceAt, ReportAt, OneLineage, InventoryInv

LEMMA InspectInventoryStep ==
  ASSUME Inv, NEW at, InspectInventory(at)
  PROVE  Inv'
  <1>1. product.step = 14 /\ product.terminal = "none"
    BY StepIsKnown DEF InspectInventory, Guided, StepOf
  <1>2. /\ DOMAIN product' = ProductFields
        /\ product'.step = 15 /\ product'.terminal = "none"
        /\ SameProgram /\ SamePolicy /\ SameCampaign /\ SameIdentities
        /\ SameCandidate /\ SameEvidence /\ SameReport
        /\ product'.journey.status = "completed_local_simulation"
        /\ DOMAIN product'.journey = DOMAIN product.journey
        /\ product'.inventory = [status |-> "inspected_local",
                                 hash |-> product.campaign.hash]
    BY <1>1
    DEF InspectInventory, Guided, Inv, FieldsInv, ProductFields, JourneyAt,
        Shape
  <1> QED
    BY <1>1, <1>2
    DEF Inv, FieldsInv, ProductFields, NothingInv, Nothing, Shape, ProgramAt,
        PolicyAt, CampaignAt, IdentitiesAt, JourneyAt, InventoryAt,
        CandidateAt, EvidenceAt, ReportAt, OneLineage, InventoryInv

LEMMA GenerateCandidatesStep ==
  ASSUME Inv, NEW at, GenerateCandidates(at)
  PROVE  Inv'
  <1>1. product.step = 15 /\ product.terminal = "none"
    BY StepIsKnown DEF GenerateCandidates, Guided, StepOf
  <1>2. /\ DOMAIN product' = ProductFields
        /\ product'.step = 16 /\ product'.terminal = "none"
        /\ SameProgram /\ SamePolicy /\ SameCampaign /\ SameIdentities
        /\ SameJourney /\ SameInventory /\ SameEvidence /\ SameReport
        /\ product'.candidate = [status |-> "generated",
                                 budget |-> product.campaign.budget]
    BY <1>1 DEF GenerateCandidates, Guided, Inv, FieldsInv, ProductFields
  <1> QED
    BY <1>1, <1>2
    DEF Inv, FieldsInv, ProductFields, NothingInv, Nothing, Shape, ProgramAt,
        PolicyAt, CampaignAt, IdentitiesAt, JourneyAt, InventoryAt,
        CandidateAt, EvidenceAt, ReportAt, OneLineage, InventoryInv

LEMMA VerifyCandidateStep ==
  ASSUME Inv, NEW at, VerifyCandidate(at)
  PROVE  Inv'
  <1>1. product.step = 16 /\ product.terminal = "none"
    BY StepIsKnown DEF VerifyCandidate, Guided, StepOf
  <1>2. /\ DOMAIN product' = ProductFields
        /\ product'.step = 17 /\ product'.terminal = "none"
        /\ SameProgram /\ SamePolicy /\ SameCampaign /\ SameIdentities
        /\ SameJourney /\ SameInventory /\ SameEvidence /\ SameReport
        /\ product'.candidate.status = "verified_local_fixture"
        /\ DOMAIN product'.candidate = DOMAIN product.candidate
        /\ product'.candidate.budget = product.candidate.budget
    BY <1>1
    DEF VerifyCandidate, Guided, Inv, FieldsInv, ProductFields, CandidateAt,
        Shape
  <1> QED
    BY <1>1, <1>2
    DEF Inv, FieldsInv, ProductFields, NothingInv, Nothing, Shape, ProgramAt,
        PolicyAt, CampaignAt, IdentitiesAt, JourneyAt, InventoryAt,
        CandidateAt, EvidenceAt, ReportAt, OneLineage, InventoryInv

LEMMA OpenEvidenceStep ==
  ASSUME Inv, NEW at, OpenEvidence(at)
  PROVE  Inv'
  <1>1. product.step = 17 /\ product.terminal = "none"
    BY StepIsKnown DEF OpenEvidence, Guided, StepOf
  <1>2. /\ DOMAIN product' = ProductFields
        /\ product'.step = 18 /\ product'.terminal = "none"
        /\ SameProgram /\ SamePolicy /\ SameCampaign /\ SameIdentities
        /\ SameJourney /\ SameInventory /\ SameCandidate /\ SameReport
        /\ product'.evidence = [status |-> "open_local_bundle",
                                hash |-> product.policy.hash,
                                verified |-> product.candidate,
                                inspected |-> product.inventory]
    BY <1>1 DEF OpenEvidence, Guided, Inv, FieldsInv, ProductFields
  <1> QED
    BY <1>1, <1>2
    DEF Inv, FieldsInv, ProductFields, NothingInv, Nothing, Shape, ProgramAt,
        PolicyAt, CampaignAt, IdentitiesAt, JourneyAt, InventoryAt,
        CandidateAt, EvidenceAt, ReportAt, OneLineage, InventoryInv

LEMMA CreateReportStep ==
  ASSUME Inv, NEW at, CreateReport(at)
  PROVE  Inv'
  <1>1. product.step = 18 /\ product.terminal = "none"
    BY StepIsKnown DEF CreateReport, Guided, StepOf
  <1>2. /\ DOMAIN product' = ProductFields
        /\ product'.step = 19 /\ product'.terminal = "none"
        /\ SameProgram /\ SamePolicy /\ SameCampaign /\ SameIdentities
        /\ SameJourney /\ SameInventory /\ SameCandidate /\ SameEvidence
        /\ product'.report = [status |-> "draft",
                              bundle |-> product.evidence]
    BY <1>1 DEF CreateReport, Guided, Inv, FieldsInv, ProductFields
  <1> QED
    BY <1>1, <1>2
    DEF Inv, FieldsInv, ProductFields, NothingInv, Nothing, Shape, ProgramAt,
        PolicyAt, CampaignAt, IdentitiesAt, JourneyAt, InventoryAt,
        CandidateAt, EvidenceAt, ReportAt, OneLineage, InventoryInv

LEMMA QueueReportReviewStep ==
  ASSUME Inv, NEW at, QueueReportReview(at)
  PROVE  Inv'
  <1>1. product.step = 19 /\ product.terminal = "none"
    BY StepIsKnown DEF QueueReportReview, Guided, StepOf
  <1>2. /\ DOMAIN product' = ProductFields
        /\ product'.step = 20 /\ product'.terminal = "none"
        /\ SameProgram /\ SamePolicy /\ SameCampaign /\ SameIdentities
        /\ SameJourney /\ SameInventory /\ SameCandidate /\ SameEvidence
        /\ product'.report.status = "queued_for_local_review"
        /\ DOMAIN product'.report = DOMAIN product.report
        /\ product'.report.bundle = product.report.bundle
    BY <1>1
    DEF QueueReportReview, Guided, Inv, FieldsInv, ProductFields, ReportAt,
        Shape
  <1> QED
    BY <1>1, <1>2
    DEF Inv, FieldsInv, ProductFields, NothingInv, Nothing, Shape, ProgramAt,
        PolicyAt, CampaignAt, IdentitiesAt, JourneyAt, InventoryAt,
        CandidateAt, EvidenceAt, ReportAt, OneLineage, InventoryInv

LEMMA ApproveLocalReportStep ==
  ASSUME Inv, NEW at, ApproveLocalReport(at)
  PROVE  Inv'
  <1>1. product.step = 20 /\ product.terminal = "none"
    BY StepIsKnown DEF ApproveLocalReport, Guided, StepOf
  <1>2. /\ DOMAIN product' = ProductFields
        /\ product'.step = 21 /\ product'.terminal = "none"
        /\ SameProgram /\ SamePolicy /\ SameIdentities /\ SameJourney
        /\ SameInventory /\ SameCandidate /\ SameEvidence
        /\ product'.report.status = "approved_local_only"
        /\ DOMAIN product'.report = DOMAIN product.report
        /\ product'.report.bundle = product.report.bundle
        /\ product'.campaign = Revised(product.campaign, "completed_local_only")
    BY <1>1
    DEF ApproveLocalReport, Guided, Inv, FieldsInv, ProductFields, ReportAt,
        CampaignAt, Shape
  <1>3. /\ product'.campaign.status = "completed_local_only"
        /\ DOMAIN product'.campaign = DOMAIN product.campaign
        /\ product'.campaign.hash = product.campaign.hash
        /\ product'.campaign.budget = product.campaign.budget
    BY <1>1, <1>2 DEF Inv, FieldsInv, Shape, CampaignAt, Revised
  <1> QED
    BY <1>1, <1>2, <1>3
    DEF Inv, FieldsInv, ProductFields, NothingInv, Nothing, Shape, ProgramAt,
        PolicyAt, CampaignAt, IdentitiesAt, JourneyAt, InventoryAt,
        CandidateAt, EvidenceAt, ReportAt, OneLineage, InventoryInv

LEMMA EditProgramStep ==
  ASSUME Inv, NEW at, EditProgram(at)
  PROVE  Inv'
  <1>1. product.step = 8 /\ product.terminal = "none"
    BY StepIsKnown
    DEF EditProgram, Managed, ManagementAllowed, ProgramIsOpen, StepOf
  <1>2. /\ DOMAIN product' = ProductFields
        /\ product'.step = 8 /\ product'.terminal = "none"
        /\ SamePolicy /\ SameCampaign /\ SameIdentities /\ SameJourney
        /\ SameInventory /\ SameCandidate /\ SameEvidence /\ SameReport
        /\ DOMAIN product'.program = DOMAIN product.program
        /\ product'.program.status = product.program.status
    BY <1>1
    DEF EditProgram, Managed, Inv, FieldsInv, ProductFields, Shape, ProgramAt
  <1> QED
    BY <1>1, <1>2
    DEF Inv, FieldsInv, ProductFields, NothingInv, Nothing, Shape, ProgramAt,
        PolicyAt, CampaignAt, IdentitiesAt, JourneyAt, InventoryAt,
        CandidateAt, EvidenceAt, ReportAt, OneLineage, InventoryInv

LEMMA ArchiveProgramStep ==
  ASSUME Inv, NEW at, ArchiveProgram(at)
  PROVE  Inv'
  <1>1. product.step = 8 /\ product.terminal = "none"
    BY StepIsKnown
    DEF ArchiveProgram, Managed, ManagementAllowed, ProgramIsOpen, StepOf
  <1>2. /\ DOMAIN product' = ProductFields
        /\ product'.step = 8 /\ product'.terminal = "program_archived"
        /\ SamePolicy /\ SameCampaign /\ SameIdentities /\ SameJourney
        /\ SameInventory /\ SameCandidate /\ SameEvidence /\ SameReport
        /\ product'.program.status = "archived"
        /\ DOMAIN product'.program = DOMAIN product.program
    BY <1>1
    DEF ArchiveProgram, Managed, Inv, FieldsInv, ProductFields, Shape,
        ProgramAt
  <1> QED
    BY <1>1, <1>2
    DEF Inv, FieldsInv, ProductFields, NothingInv, Nothing, Shape, ProgramAt,
        PolicyAt, CampaignAt, IdentitiesAt, JourneyAt, InventoryAt,
        CandidateAt, EvidenceAt, ReportAt, OneLineage, InventoryInv,
        HaltsTogether, Halted, TerminalReasons

LEMMA StartIdentitySessionsStep ==
  ASSUME Inv, NEW at, StartIdentitySessions(at)
  PROVE  Inv'
  <1>1. product.step = 13 /\ product.terminal = "none"
    BY StepIsKnown
    DEF StartIdentitySessions, Managed, ManagementAllowed, StepOf
  <1>2. /\ DOMAIN product' = ProductFields
        /\ product'.step = 13 /\ product'.terminal = "none"
        /\ SameProgram /\ SamePolicy /\ SameCampaign /\ SameJourney
        /\ SameInventory /\ SameCandidate /\ SameEvidence /\ SameReport
        /\ product'.identities = "active_local"
    BY <1>1 DEF StartIdentitySessions, Managed, Inv, FieldsInv, ProductFields
  <1> QED
    BY <1>1, <1>2
    DEF Inv, FieldsInv, ProductFields, NothingInv, Nothing, Shape, ProgramAt,
        PolicyAt, CampaignAt, IdentitiesAt, JourneyAt, InventoryAt,
        CandidateAt, EvidenceAt, ReportAt, OneLineage, InventoryInv

(* A halted campaign takes a pending journey with it (haltCampaign).        *)
LEMMA HaltCampaignStep ==
  ASSUME Inv, NEW status \in Halted,
         NEW reason \in TerminalReasons \ {"program_archived"},
         NEW action \in {"pause_campaign", "cancel_campaign"}, NEW at,
         Managed(action, at, HaltCampaign(status, reason))
  PROVE  Inv'
  <1>1. product.step \in 12..20 /\ product.terminal = "none"
    BY GuideLength
    DEF Managed, ManagementAllowed, CampaignIsOpen, Finished, Inv, Shape,
        CampaignAt
  <1>2. /\ DOMAIN product' = ProductFields
        /\ product'.step = product.step /\ product'.terminal = reason
        /\ SameProgram /\ SamePolicy /\ SameIdentities /\ SameInventory
        /\ SameCandidate /\ SameEvidence /\ SameReport
        /\ product'.campaign = Revised(product.campaign, status)
        /\ DOMAIN product'.journey = DOMAIN product.journey
        /\ product'.journey.status =
             IF product.journey.status = "simulated_pending_inventory"
             THEN status ELSE product.journey.status
    BY <1>1 DEF Managed, HaltCampaign, Inv, FieldsInv, ProductFields
  <1>3. /\ product'.campaign.status = status
        /\ DOMAIN product'.campaign = DOMAIN product.campaign
        /\ product'.campaign.hash = product.campaign.hash
        /\ product'.campaign.budget = product.campaign.budget
    BY <1>1, <1>2 DEF Inv, FieldsInv, Shape, CampaignAt, Revised, Halted
  <1> QED
    BY <1>1, <1>2, <1>3
    DEF Inv, FieldsInv, ProductFields, NothingInv, Nothing, Shape, ProgramAt,
        PolicyAt, CampaignAt, IdentitiesAt, JourneyAt, InventoryAt,
        CandidateAt, EvidenceAt, ReportAt, OneLineage, InventoryInv,
        HaltsTogether, Halted, TerminalReasons

(* A halted journey takes its campaign with it (haltJourney).               *)
LEMMA HaltJourneyStep ==
  ASSUME Inv, NEW status \in Halted,
         NEW reason \in TerminalReasons \ {"program_archived"},
         NEW action \in {"pause_journey", "cancel_journey"}, NEW at,
         Managed(action, at, HaltJourney(status, reason))
  PROVE  Inv'
  <1>1. product.step = 14 /\ product.terminal = "none"
    BY StepIsKnown DEF Managed, ManagementAllowed, JourneyIsOpen, StepOf
  <1>2. /\ DOMAIN product' = ProductFields
        /\ product'.step = 14 /\ product'.terminal = reason
        /\ SameProgram /\ SamePolicy /\ SameIdentities /\ SameInventory
        /\ SameCandidate /\ SameEvidence /\ SameReport
        /\ product'.campaign = Revised(product.campaign, status)
        /\ DOMAIN product'.journey = DOMAIN product.journey
        /\ product'.journey.status = status
    BY <1>1 DEF Managed, HaltJourney, Inv, FieldsInv, ProductFields
  <1>3. /\ product'.campaign.status = status
        /\ DOMAIN product'.campaign = DOMAIN product.campaign
        /\ product'.campaign.hash = product.campaign.hash
        /\ product'.campaign.budget = product.campaign.budget
    BY <1>1, <1>2 DEF Inv, FieldsInv, Shape, CampaignAt, Revised, Halted
  <1> QED
    BY <1>1, <1>2, <1>3
    DEF Inv, FieldsInv, ProductFields, NothingInv, Nothing, Shape, ProgramAt,
        PolicyAt, CampaignAt, IdentitiesAt, JourneyAt, InventoryAt,
        CandidateAt, EvidenceAt, ReportAt, OneLineage, InventoryInv,
        HaltsTogether, Halted, TerminalReasons

LEMMA EndStep ==
  ASSUME Inv, NEW action \in ManagementActions, NEW at,
         EndCampaign(action, at) \/ EndJourney(action, at)
  PROVE  Inv'
  <1>1. CASE EndCampaign(action, at)
    BY <1>1, HaltCampaignStep DEF EndCampaign, Halted, TerminalReasons
  <1>2. CASE EndJourney(action, at)
    BY <1>2, HaltJourneyStep DEF EndJourney, Halted, TerminalReasons
  <1> QED
    BY <1>1, <1>2

(* A new process starts where the invariant asks nothing of the snapshots.  *)
LEMMA StartStep ==
  ASSUME NEW at, product = NewProduct(at)
  PROVE  Inv
  BY DEF NewProduct, Inv, FieldsInv, ProductFields, NothingInv, Nothing, Shape,
      ProgramAt, PolicyAt, CampaignAt, IdentitiesAt, JourneyAt, InventoryAt,
      CandidateAt, EvidenceAt, ReportAt, OneLineage, InventoryInv

LEMMA Initially == LocalProductInit => Inv
  BY StartStep DEF LocalProductInit

(* Every action of the guide, by the lemma of that action.                  *)
LEMMA GuidedStep ==
  ASSUME Inv, NEW at, PerformGuided(at)
  PROVE  Inv'
  BY OnboardingStep, CreateProgramStep, ImportPolicyStep, AcceptPolicyStep,
     CreateCampaignStep, ApproveCampaignStep, PrepareIdentitiesStep,
     StartJourneyStep, InspectInventoryStep, GenerateCandidatesStep,
     VerifyCandidateStep, OpenEvidenceStep, CreateReportStep,
     QueueReportReviewStep, ApproveLocalReportStep
  DEF PerformGuided, Onboards

LEMMA ManagementStep ==
  ASSUME Inv, NEW at, PerformManagement(at)
  PROVE  Inv'
  BY EditProgramStep, ArchiveProgramStep, StartIdentitySessionsStep, EndStep
  DEF PerformManagement

LEMMA InvIsInductive ==
  ASSUME Inv, [LocalProductNext]_productVars
  PROVE  Inv'
  <1>1. CASE UNCHANGED productVars
    BY <1>1
    DEF productVars, HaltsTogether, Finished, Inv, FieldsInv, ProductFields,
        NothingInv, Nothing, Shape, ProgramAt, PolicyAt, CampaignAt,
        IdentitiesAt, JourneyAt, InventoryAt, CandidateAt, EvidenceAt,
        ReportAt, OneLineage, InventoryInv
  <1>2. ASSUME NEW at \in 0..MaxTime, Perform(at)
        PROVE  Inv'
    BY <1>2, GuidedStep, ManagementStep DEF Perform
  <1>3. ASSUME NEW at \in 0..MaxTime, StartProduct(at)
        PROVE  Inv'
    <2>1. product' = NewProduct(at)
      BY <1>3 DEF StartProduct
    <2> QED
      BY <2>1
      DEF NewProduct, Inv, FieldsInv, ProductFields, NothingInv, Nothing,
          Shape, ProgramAt, PolicyAt, CampaignAt, IdentitiesAt, JourneyAt,
          InventoryAt, CandidateAt, EvidenceAt, ReportAt, OneLineage,
          InventoryInv
  <1> QED
    BY <1>1, <1>2, <1>3 DEF LocalProductNext

(* The invariant holds in every state (perform, from construction on).      *)
THEOREM InvHolds == LocalProductSpec => []Inv
  BY Initially, InvIsInductive, PTL DEF LocalProductSpec

-----------------------------------------------------------------------------
(* What the invariant says of the properties.                               *)

(* While nothing is halted the shape of a step satisfies HaltsTogether.     *)
LEMMA ShapesAgree ==
  ASSUME Inv
  PROVE  HaltsTogether
  <1>1. CASE product.terminal # "none"
    BY <1>1 DEF Inv
  <1>2. CASE product.terminal = "none"
    BY <1>2, GuideLength
    DEF Inv, HaltsTogether, Halted, TerminalReasons, Finished, Shape,
        CampaignAt, JourneyAt, ReportAt
  <1> QED
    BY <1>1, <1>2

(* The snapshots a step requires are there when it is next.                 *)
LEMMA NextActionApplies ==
  ASSUME Inv, ~Finished
  PROVE  Prerequisite(NextAction)
  <1>1. product.step \in 0..20 /\ product.terminal = "none"
    BY GuideLength DEF Inv, Finished
  <1>2. /\ NextAction \in DOMAIN StepOf
        /\ product.step = StepOf[NextAction]
    BY <1>1 DEF NextAction, GuidedActions, StepOf
  <1> QED
    BY <1>1, <1>2
    DEF Prerequisite, StepOf, Inv, NothingInv, Nothing, Shape, ProgramAt,
        PolicyAt, CampaignAt, IdentitiesAt, JourneyAt, InventoryAt,
        CandidateAt, EvidenceAt, ReportAt

(* Offer and permission are the same condition, action by action.           *)
LEMMA OffersArePermissions ==
  AvailableManagementActions =
    {a \in ManagementActions : ManagementAllowed(a)}
  <1> SUFFICES ASSUME NEW a \in ManagementActions
               PROVE  a \in AvailableManagementActions
                        <=> ManagementAllowed(a)
    BY DEF AvailableManagementActions
  <1> QED
    BY DEF AvailableManagementActions, ManagementAllowed, ManagementActions,
        OffersProgram, OffersSessions, OffersCampaign, OffersJourney,
        ProgramIsOpen, CampaignIsOpen, JourneyIsOpen, NextIs

(* What the snapshot offers is carried out, for every choice of names,      *)
(* exclusions, policies and budgets (perform, availableManagementActions).  *)
THEOREM OffersApply == LocalProductSpec => []OfferedActionsApply
  <1>1. Inv => OfferedActionsApply
    BY NextActionApplies, OffersArePermissions DEF OfferedActionsApply
  <1> QED
    BY <1>1, InvHolds, PTL

(* The nine snapshots never contradict each other (applyGuided,             *)
(* haltCampaign, haltJourney).                                              *)
THEOREM SnapshotsStayTogether == LocalProductSpec => []SnapshotsAgree
  <1>1. Inv => SnapshotsAgree
    BY ShapesAgree DEF SnapshotsAgree, Inv
  <1> QED
    BY <1>1, InvHolds, PTL

-----------------------------------------------------------------------------
(* Types. A snapshot that is there is a snapshot of its kind.               *)
LEMMA Typed ==
  ASSUME LocalProductTypeOK
  PROVE  /\ product.program.status # "none" => product.program \in Program
         /\ product.policy.status # "none" => product.policy \in Policy
         /\ product.campaign.status # "none" => product.campaign \in Campaign
         /\ product.journey.status # "none" => product.journey \in Journey
         /\ product.inventory # Nothing => product.inventory \in Inventory
         /\ product.candidate.status # "none" =>
              product.candidate \in Candidate
         /\ product.evidence # Nothing => product.evidence \in Evidence
         /\ product.report.status # "none" => product.report \in Report
  BY DEF LocalProductTypeOK, Nothing

(* A revised campaign is a campaign.                                        *)
LEMMA RevisedType ==
  ASSUME NEW c \in Campaign, NEW s \in CampaignStatus
  PROVE  Revised(c, s) \in Campaign
  <1> DEFINE moved == [c EXCEPT !.status = s]
  <1>1. moved = [status |-> s, revision |-> c.revision, hash |-> c.hash,
                 budget |-> c.budget]
    BY DEF Campaign
  <1>2. Revised(c, s) = [moved EXCEPT !.revision = @ + 1]
    BY DEF Revised
  <1>3. Revised(c, s) = [status |-> s, revision |-> c.revision + 1,
                         hash |-> c.hash, budget |-> c.budget]
    <2> HIDE DEF moved
    <2> QED BY <1>1, <1>2
  <1> QED
    BY <1>3 DEF Campaign

LEMMA OnboardingType ==
  ASSUME Inv, Inv', LocalProductTypeOK, NEW at \in 0..MaxTime, Onboards(at)
  PROVE  LocalProductTypeOK'
  <1> USE DEF ProductFields, LocalProductTypeOK, Guided
  <1>0. /\ DOMAIN product = ProductFields
        /\ product'.step \in 0..Len(GuidedActions)
        /\ product'.terminal \in {"none"} \cup TerminalReasons
    BY GuideLength DEF Inv, FieldsInv
  <1>1. ASSUME SystemCheck(at)
        PROVE  LocalProductTypeOK'
    <2>1. product'.onboarding =
            [status |-> "in_progress",
             systemCheck |-> context.readiness.platform,
             credentialStorageCheck |->
               product.onboarding.credentialStorageCheck,
             confirmed |-> product.onboarding.confirmed,
             testMailbox |-> product.onboarding.testMailbox]
      BY <1>0, <1>1 DEF SystemCheck, Onboarding
    <2>2. product'.onboarding \in Onboarding
      BY <2>1 DEF Onboarding, Readiness
    <2> QED
      BY <1>0, <1>1, <2>2 DEF SystemCheck
  <1>2. ASSUME SecretStoreCheck(at)
        PROVE  LocalProductTypeOK'
    BY <1>0, <1>2 DEF SecretStoreCheck, Onboarding, Readiness
  <1>3. ASSUME NEW action \in DOMAIN Confirmation, Confirm(action, at)
        PROVE  LocalProductTypeOK'
    BY <1>0, <1>3 DEF Confirm, Confirmation, Onboarding
  <1>4. ASSUME NEW schema \in Mailboxes, ConfigureTestmail(schema, at)
        PROVE  LocalProductTypeOK'
    BY <1>0, <1>4 DEF ConfigureTestmail, Onboarding
  <1>5. ASSUME InitializeDemo(at)
        PROVE  LocalProductTypeOK'
    BY <1>0, <1>5 DEF InitializeDemo, Onboarding
  <1> QED
    BY <1>1, <1>2, <1>3, <1>4, <1>5 DEF Onboards

(* The guided actions from the program to the report, each from the types   *)
(* of the snapshots it reads.                                               *)
LEMMA GuidedType ==
  ASSUME Inv, Inv', LocalProductTypeOK, NEW at \in 0..MaxTime,
         PerformGuided(at)
  PROVE  LocalProductTypeOK'
  <1> USE DEF ProductFields, Guided
  <1>0. /\ DOMAIN product = ProductFields
        /\ product'.step \in 0..Len(GuidedActions)
        /\ product'.terminal \in {"none"} \cup TerminalReasons
    BY GuideLength DEF Inv, FieldsInv
  <1>1. ASSUME NEW name \in Names, NEW excluded \in Exclusions,
               CreateProgram(name, excluded, at)
        PROVE  LocalProductTypeOK'
    BY <1>0, <1>1, InputsAssumption
    DEF LocalProductTypeOK, CreateProgram, Program
  <1>2. ASSUME NEW representation \in Representations,
               ImportPolicy(representation, at)
        PROVE  LocalProductTypeOK'
    <2>1. product.program.status # "none"
      BY <1>2, StepIsKnown DEF ImportPolicy, StepOf, Inv, Shape, ProgramAt
    <2>2. product.program \in Program
      BY <2>1, Typed
    <2> QED
      BY <1>0, <1>2, <2>2
      DEF LocalProductTypeOK, ImportPolicy, Program, Policy, Hashes,
          PolicyHash
  <1>3. ASSUME AcceptPolicy(at)
        PROVE  LocalProductTypeOK'
    <2>1. product.policy.status # "none"
      BY <1>3, StepIsKnown DEF AcceptPolicy, StepOf, Inv, Shape, PolicyAt
    <2>2. product.policy \in Policy
      BY <2>1, Typed
    <2> QED
      BY <1>0, <1>3, <2>2 DEF LocalProductTypeOK, AcceptPolicy, Policy
  <1>4. ASSUME NEW budget \in Budgets, CreateCampaign(budget, at)
        PROVE  LocalProductTypeOK'
    <2>1. product.policy.status # "none"
      BY <1>4, StepIsKnown DEF CreateCampaign, StepOf, Inv, Shape, PolicyAt
    <2>2. product.policy \in Policy
      BY <2>1, Typed
    <2> QED
      BY <1>0, <1>4, <2>2
      DEF LocalProductTypeOK, CreateCampaign, Campaign, CampaignStatus, Policy
  <1>5. ASSUME ApproveCampaign(at)
        PROVE  LocalProductTypeOK'
    <2>1. product.campaign.status # "none"
      BY <1>5, StepIsKnown DEF ApproveCampaign, StepOf, Inv, Shape, CampaignAt
    <2>2. product.campaign \in Campaign
      BY <2>1, Typed
    <2>3. product'.campaign =
            Revised(product.campaign, "approved_local")
      BY <1>0, <1>5 DEF ApproveCampaign
    <2>4. product'.campaign \in Campaign
      BY <2>2, <2>3, RevisedType DEF CampaignStatus
    <2> QED
      BY <1>0, <1>5, <2>2, <2>4 DEF LocalProductTypeOK, ApproveCampaign
  <1>6. ASSUME PrepareIdentities(at)
        PROVE  LocalProductTypeOK'
    BY <1>0, <1>6 DEF LocalProductTypeOK, PrepareIdentities
  <1>7. ASSUME StartJourney(at)
        PROVE  LocalProductTypeOK'
    <2>1. product.campaign.status # "none"
      BY <1>7, StepIsKnown DEF StartJourney, StepOf, Inv, Shape, CampaignAt
    <2>2. product.campaign \in Campaign
      BY <2>1, Typed
    <2>3. product'.campaign =
            Revised(product.campaign, "running_local_simulation")
      BY <1>0, <1>7 DEF StartJourney
    <2>4. product'.campaign \in Campaign
      BY <2>2, <2>3, RevisedType DEF CampaignStatus
    <2> QED
      BY <1>0, <1>7, <2>2, <2>4
      DEF LocalProductTypeOK, StartJourney, Journey, JourneyStatus
  <1>8. ASSUME InspectInventory(at)
        PROVE  LocalProductTypeOK'
    <2>1. /\ product.campaign.status # "none"
          /\ product.journey.status # "none"
      BY <1>8, StepIsKnown
      DEF InspectInventory, StepOf, Inv, Shape, CampaignAt, JourneyAt
    <2>2. /\ product.campaign \in Campaign
          /\ product.journey \in Journey
      BY <2>1, Typed
    <2> QED
      BY <1>0, <1>8, <2>2
      DEF LocalProductTypeOK, InspectInventory, Campaign, Journey,
          JourneyStatus, Inventory
  <1>9. ASSUME GenerateCandidates(at)
        PROVE  LocalProductTypeOK'
    <2>1. product.campaign.status # "none"
      BY <1>9, StepIsKnown
      DEF GenerateCandidates, StepOf, Inv, Shape, CampaignAt
    <2>2. product.campaign \in Campaign
      BY <2>1, Typed
    <2> QED
      BY <1>0, <1>9, <2>2
      DEF LocalProductTypeOK, GenerateCandidates, Campaign, Candidate
  <1>10. ASSUME VerifyCandidate(at)
        PROVE  LocalProductTypeOK'
    <2>1. product.candidate.status # "none"
      BY <1>10, StepIsKnown
      DEF VerifyCandidate, StepOf, Inv, Shape, CandidateAt
    <2>2. product.candidate \in Candidate
      BY <2>1, Typed
    <2> QED
      BY <1>0, <1>10, <2>2 DEF LocalProductTypeOK, VerifyCandidate, Candidate
  <1>11. ASSUME OpenEvidence(at)
        PROVE  LocalProductTypeOK'
    <2>1. /\ product.policy.status # "none"
          /\ product.candidate.status # "none"
          /\ product.inventory # Nothing
      BY <1>11, StepIsKnown
      DEF OpenEvidence, StepOf, Inv, Shape, PolicyAt, CandidateAt, InventoryAt
    <2>2. /\ product.policy \in Policy
          /\ product.candidate \in Candidate
          /\ product.inventory \in Inventory
      BY <2>1, Typed
    <2> QED
      BY <1>0, <1>11, <2>2
      DEF LocalProductTypeOK, OpenEvidence, Policy, Evidence
  <1>12. ASSUME CreateReport(at)
        PROVE  LocalProductTypeOK'
    <2>1. product.evidence # Nothing
      BY <1>12, StepIsKnown DEF CreateReport, StepOf, Inv, Shape, EvidenceAt
    <2>2. product.evidence \in Evidence
      BY <2>1, Typed
    <2> QED
      BY <1>0, <1>12, <2>2 DEF LocalProductTypeOK, CreateReport, Report
  <1>13. ASSUME QueueReportReview(at)
        PROVE  LocalProductTypeOK'
    <2>1. product.report.status # "none"
      BY <1>13, StepIsKnown
      DEF QueueReportReview, StepOf, Inv, Shape, ReportAt
    <2>2. product.report \in Report
      BY <2>1, Typed
    <2> QED
      BY <1>0, <1>13, <2>2 DEF LocalProductTypeOK, QueueReportReview, Report
  <1>14. ASSUME ApproveLocalReport(at)
        PROVE  LocalProductTypeOK'
    <2>1. /\ product.report.status # "none"
          /\ product.campaign.status # "none"
      BY <1>14, StepIsKnown
      DEF ApproveLocalReport, StepOf, Inv, Shape, ReportAt, CampaignAt
    <2>2. /\ product.report \in Report
          /\ product.campaign \in Campaign
      BY <2>1, Typed
    <2>3. product'.campaign =
            Revised(product.campaign, "completed_local_only")
      BY <1>0, <1>14 DEF ApproveLocalReport
    <2>4. product'.campaign \in Campaign
      BY <2>2, <2>3, RevisedType DEF CampaignStatus
    <2> QED
      BY <1>0, <1>14, <2>2, <2>4
      DEF LocalProductTypeOK, ApproveLocalReport, Report
  <1> QED
    BY OnboardingType, <1>1, <1>2, <1>3, <1>4, <1>5, <1>6, <1>7,
       <1>8, <1>9, <1>10, <1>11, <1>12, <1>13, <1>14
    DEF PerformGuided, Onboards

LEMMA ManagementType ==
  ASSUME Inv, Inv', LocalProductTypeOK, NEW at \in 0..MaxTime,
         PerformManagement(at)
  PROVE  LocalProductTypeOK'
  <1> USE DEF ProductFields, LocalProductTypeOK, Managed,
              ManagementAllowed
  <1>0. /\ DOMAIN product = ProductFields
        /\ product'.step \in 0..Len(GuidedActions)
        /\ product'.terminal \in {"none"} \cup TerminalReasons
    BY GuideLength DEF Inv, FieldsInv
  <1>1. ASSUME EditProgram(at)
        PROVE  LocalProductTypeOK'
    <2>1. product.program \in Program
      BY <1>1, Typed DEF EditProgram, ProgramIsOpen
    <2>2. ReviewedName \in Names
      BY NamesAssumption DEF ReviewedName
    <2>3. product'.program =
            [status |-> product.program.status, name |-> ReviewedName,
             revision |-> product.program.revision + 1,
             excluded |-> product.program.excluded]
      BY <1>0, <1>1, <2>1 DEF EditProgram, Program
    <2>4. product'.program \in Program
      BY <2>1, <2>2, <2>3 DEF Program
    <2> QED
      BY <1>0, <1>1, <2>4 DEF EditProgram
  <1>2. ASSUME ArchiveProgram(at)
        PROVE  LocalProductTypeOK'
    <2>1. product.program \in Program
      BY <1>2, Typed DEF ArchiveProgram, ProgramIsOpen
    <2>2. product'.program =
            [status |-> "archived", name |-> product.program.name,
             revision |-> product.program.revision + 1,
             excluded |-> product.program.excluded]
      BY <1>0, <1>2, <2>1 DEF ArchiveProgram, Program
    <2>3. product'.program \in Program
      BY <2>1, <2>2 DEF Program
    <2> QED
      BY <1>0, <1>2, <2>3 DEF ArchiveProgram
  <1>3. ASSUME StartIdentitySessions(at)
        PROVE  LocalProductTypeOK'
    BY <1>0, <1>3 DEF StartIdentitySessions
  <1>4. ASSUME NEW action \in {"pause_campaign", "cancel_campaign"},
               NEW status \in Halted,
               NEW reason \in TerminalReasons,
               Managed(action, at, HaltCampaign(status, reason))
        PROVE  LocalProductTypeOK'
    <2>1. product.campaign \in Campaign
      BY <1>4, Typed DEF CampaignIsOpen
    <2>2. product'.campaign = Revised(product.campaign, status)
      BY <1>0, <1>4 DEF HaltCampaign
    <2>3. product'.campaign \in Campaign
      BY <2>1, <2>2, RevisedType DEF CampaignStatus
    <2>4. product'.journey \in Journey \cup {Nothing}
      BY <1>0, <1>4 DEF HaltCampaign, Journey, JourneyStatus, Nothing
    <2> QED
      BY <1>0, <1>4, <2>3, <2>4 DEF HaltCampaign
  <1>5. ASSUME NEW action \in {"pause_journey", "cancel_journey"},
               NEW status \in Halted,
               NEW reason \in TerminalReasons,
               Managed(action, at, HaltJourney(status, reason))
        PROVE  LocalProductTypeOK'
    <2>1. product.campaign \in Campaign /\ product.journey \in Journey
      BY <1>5, Typed DEF JourneyIsOpen
    <2>2. product'.campaign = Revised(product.campaign, status)
      BY <1>0, <1>5 DEF HaltJourney
    <2>3. product'.campaign \in Campaign
      BY <2>1, <2>2, RevisedType DEF CampaignStatus
    <2>4. product'.journey \in Journey
      BY <1>0, <1>5, <2>1 DEF HaltJourney, Journey, JourneyStatus
    <2> QED
      BY <1>0, <1>5, <2>3, <2>4 DEF HaltJourney
  <1> QED
    BY <1>1, <1>2, <1>3, <1>4, <1>5
    DEF PerformManagement, EndCampaign, EndJourney, Halted, TerminalReasons

(* A new process starts with a typed product and context.                   *)
LEMMA NewProductType ==
  ASSUME NEW at \in 0..MaxTime, product = NewProduct(at),
         context.readiness \in Readiness, IsFixture(context.demo)
  PROVE  LocalProductTypeOK
  BY GuideLength DEF LocalProductTypeOK, NewProduct, Onboarding

LEMMA ReadinessType ==
  ASSUME NEW env \in Environment
  PROVE  DeriveRuntimeReadiness(env) \in Readiness
  <1>1. \A setting \in Settings : ConfigurationStatus(setting) \in Status
    BY DEF Settings, ConfigurationStatus, Status, GateStatus
  <1>2. SecretStoreStatus(env) \in Status
    BY DEF SecretStoreStatus, SecretStoreProbe, Status, GateStatus, Configured,
           Environment
  <1> QED
    BY <1>1, <1>2 DEF Environment, DeriveRuntimeReadiness, Readiness, GateStatus

LEMMA StartType ==
  ASSUME NEW at \in 0..MaxTime, StartProduct(at)
  PROVE  LocalProductTypeOK'
  <1>1. context'.readiness \in Readiness /\ IsFixture(context'.demo)
    BY ReadinessType, InputsAssumption DEF StartProduct, IsFixture
  <1> QED
    BY <1>1, GuideLength
    DEF StartProduct, LocalProductTypeOK, NewProduct, Onboarding

LEMMA InitType == LocalProductInit => LocalProductTypeOK
  <1> SUFFICES ASSUME LocalProductInit
               PROVE  LocalProductTypeOK
    OBVIOUS
  <1>1. context.readiness \in Readiness /\ IsFixture(context.demo)
    BY ReadinessType, InputsAssumption DEF LocalProductInit, IsFixture
  <1> QED
    BY <1>1, NewProductType, InputsAssumption DEF LocalProductInit

(* Every snapshot is always a snapshot of its kind (applyGuided,            *)
(* applyManagement).                                                        *)
THEOREM TypesHold == LocalProductSpec => []LocalProductTypeOK
  <1>1. Inv /\ LocalProductTypeOK /\ [LocalProductNext]_productVars
          => LocalProductTypeOK'
    <2> SUFFICES ASSUME Inv, LocalProductTypeOK, Inv',
                        [LocalProductNext]_productVars
                 PROVE  LocalProductTypeOK'
      BY InvIsInductive
    <2>1. CASE UNCHANGED productVars
      BY <2>1 DEF productVars, LocalProductTypeOK
    <2> QED
      BY <2>1, GuidedType, ManagementType, StartType
      DEF LocalProductNext, Perform
  <1> QED
    BY <1>1, InvHolds, InitType, PTL DEF LocalProductSpec
=============================================================================
