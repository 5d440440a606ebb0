----------------------------- MODULE LocalProduct -----------------------------
(***************************************************************************)
(* The guided local product of packages/local-product/workflow.ts: one      *)
(* object in the memory of the dashboard process that leads a user through  *)
(* twenty-one steps in a fixed order, with a few management actions between *)
(* them. Every call of perform is synchronous and one action here.          *)
(*                                                                         *)
(* Abstractions: the fixed texts, references and badges of the snapshots    *)
(* are left out; there is one program, campaign, journey, candidate,        *)
(* evidence bundle and report, and the three identities share one status.   *)
(* A policy hash is the pair it is computed from, the digest of the demo is *)
(* its snapshot, the digest of a bundle the bundle. Every choice of roles,  *)
(* allowed assets and risk tiers has a single legal value. A call that      *)
(* throws before it reads the clock changes nothing.                        *)
(***************************************************************************)
EXTENDS LocalRuntime, DemoSaas, Sequences

CONSTANTS Environments,     \* in which the process may be started
          Mailboxes,        \* schemas a test mailbox may have
          Names,            \* the two names a program may be given
          InitialName,      \* the one edit_program replaces
          Exclusions,       \* whether an asset is excluded: TRUE, FALSE
          Representations,  \* in which a policy is imported
          Budgets,          \* request limits of a campaign
          MaxTime           \* bound: readings of the clock

ASSUME NamesAssumption == InitialName \in Names

ASSUME InputsAssumption == Exclusions \subseteq BOOLEAN
                             /\ Environments \subseteq Environment
                             /\ MaxTime \in Nat

VARIABLES
  product,    \* the fields of LocalProductWorkflow
  context     \* its runtime context and demo binding, fixed at construction

productVars == <<product, context>>

GuidedActions ==
  <<"onboarding_system_check", "onboarding_secret_store_check",
    "onboarding_select_simulation", "onboarding_configure_testmail",
    "onboarding_disable_ai", "onboarding_confirm_boundaries",
    "onboarding_initialize_demo", "create_program", "import_policy",
    "accept_policy", "create_campaign", "approve_campaign",
    "prepare_identities", "start_journey", "inspect_inventory",
    "generate_candidates", "verify_candidate", "open_evidence",
    "create_report", "queue_report_review", "approve_local_report">>

ManagementActions ==
  {"edit_program", "archive_program", "start_identity_sessions",
   "pause_campaign", "cancel_campaign", "pause_journey", "cancel_journey"}

Nothing == [status |-> "none"]

ReviewedName == CHOOSE n \in Names : n # InitialName \/ Names = {InitialName}

-----------------------------------------------------------------------------
(* The snapshots, with the fields that later actions and checks read.       *)
PolicyHash(excluded, representation) == <<excluded, representation>>
Hashes == BOOLEAN \X Representations

Onboarding == [status : {"not_started", "in_progress", "complete"},
               systemCheck : {"pending"} \cup GateStatus,
               credentialStorageCheck : {"pending"} \cup Status,
               confirmed : SUBSET {"mode", "ai", "boundaries"},
               testMailbox : {"none"} \cup Mailboxes]

Program == [status : {"active", "archived"}, name : Names, revision : Nat,
            excluded : BOOLEAN]
Policy == [status : {"imported_pending_acceptance", "accepted_local"},
           hash : Hashes]

Halted == {"paused_fail_closed", "cancelled_fail_closed"}
CampaignStatus == {"awaiting_local_approval", "approved_local",
                   "running_local_simulation", "completed_local_only"}
                    \cup Halted
Campaign == [status : CampaignStatus, revision : Nat, hash : Hashes,
             budget : Budgets]
JourneyStatus == {"simulated_pending_inventory", "completed_local_simulation"}
                   \cup Halted
Journey == [status : JourneyStatus]
Inventory == [status : {"inspected_local"}, hash : Hashes]
Candidate == [status : {"generated", "verified_local_fixture"},
              budget : Budgets]
Evidence == [status : {"open_local_bundle"}, hash : Hashes,
             verified : Candidate, inspected : Inventory]
Report == [status : {"draft", "queued_for_local_review",
                     "approved_local_only"}, bundle : Evidence]

TerminalReasons == {"program_archived", "campaign_paused",
                    "campaign_cancelled", "journey_paused",
                    "journey_cancelled"}

LocalProductTypeOK ==
  /\ product.step \in 0..Len(GuidedActions)
  /\ product.revision \in Nat
  /\ product.last \in 0..MaxTime
  /\ product.terminal \in {"none"} \cup TerminalReasons
  /\ product.onboarding \in Onboarding
  /\ product.program \in Program \cup {Nothing}
  /\ product.policy \in Policy \cup {Nothing}
  /\ product.campaign \in Campaign \cup {Nothing}
  /\ product.identities \in {"none", "inactive", "active_local"}
  /\ product.journey \in Journey \cup {Nothing}
  /\ product.inventory \in Inventory \cup {Nothing}
  /\ product.candidate \in Candidate \cup {Nothing}
  /\ product.evidence \in Evidence \cup {Nothing}
  /\ product.report \in Report \cup {Nothing}
  /\ context.readiness \in Readiness
  /\ IsFixture(context.demo)

NewProduct(at) ==
  [step |-> 0, revision |-> 0, last |-> at, terminal |-> "none",
   onboarding |-> [status |-> "not_started", systemCheck |-> "pending",
                   credentialStorageCheck |-> "pending",
                   confirmed |-> {}, testMailbox |-> "none"],
   program |-> Nothing, policy |-> Nothing, campaign |-> Nothing,
   identities |-> "none", journey |-> Nothing, inventory |-> Nothing,
   candidate |-> Nothing, evidence |-> Nothing, report |-> Nothing]

-----------------------------------------------------------------------------
Finished == product.terminal # "none" \/ product.step = Len(GuidedActions)

NextAction == GuidedActions[product.step + 1]

(* stepIndex = guidedIndex(action)                                          *)
NextIs(action) == ~Finished /\ NextAction = action

(* assertRuntimeAllows                                                      *)
RuntimeAllows(action) ==
  LET r == context.readiness IN
    CASE action = "onboarding_system_check" ->
           r.platform = "ready" /\ r.database = "ready"
      [] action = "onboarding_secret_store_check" -> r.secretStore # "blocked"
      [] action = "onboarding_initialize_demo" -> r.demoSaas = "ready"
      [] OTHER -> TRUE

(* timestamp: a clock that went back is refused.                            *)
Timestamp(at) == at >= product.last

(* What applyGuided requires of the snapshots, action by action. It runs    *)
(* after the clock was read and kept.                                       *)
Prerequisite(action) ==
  CASE action = "import_policy" -> product.program # Nothing
    [] action = "accept_policy" ->
         product.policy.status = "imported_pending_acceptance"
    [] action = "create_campaign" ->
         product.policy.status = "accepted_local" /\ product.program # Nothing
    [] action = "approve_campaign" ->
         product.campaign.status = "awaiting_local_approval"
    [] action = "prepare_identities" ->
         product.campaign.status = "approved_local"
    [] action = "start_journey" ->
         product.campaign.status = "approved_local"
           /\ product.identities # "none"
    [] action = "inspect_inventory" ->
         /\ product.journey.status = "simulated_pending_inventory"
         /\ product.campaign.status = "running_local_simulation"
         /\ product.identities # "none"
    [] action = "generate_candidates" ->
         product.inventory # Nothing /\ product.campaign # Nothing
    [] action = "verify_candidate" -> product.candidate.status = "generated"
    [] action = "open_evidence" ->
         /\ product.candidate.status = "verified_local_fixture"
         /\ Nothing \notin {product.inventory, product.policy, product.journey}
    [] action = "create_report" -> product.evidence # Nothing
    [] action = "queue_report_review" -> product.report.status = "draft"
    [] action = "approve_local_report" ->
         /\ product.report.status = "queued_for_local_review"
         /\ product.campaign # Nothing
    [] OTHER -> TRUE

(* The guided part of perform. The new snapshots come in `after'.           *)
Guided(action, at, after) ==
  /\ NextIs(action)
  /\ RuntimeAllows(action)
  /\ Timestamp(at)
  /\ Prerequisite(action)
  /\ product' = [after EXCEPT !.step = @ + 1, !.revision = @ + 1, !.last = at]
  /\ UNCHANGED context

-----------------------------------------------------------------------------
(* Onboarding                                                               *)
SystemCheck(at) ==
  Guided("onboarding_system_check", at,
    [product EXCEPT !.onboarding.status = "in_progress",
                    !.onboarding.systemCheck = context.readiness.platform])

SecretStoreCheck(at) ==
  Guided("onboarding_secret_store_check", at,
    [product EXCEPT !.onboarding.credentialStorageCheck =
                      context.readiness.secretStore])

Confirmation == [onboarding_select_simulation |-> "mode",
                 onboarding_disable_ai |-> "ai",
                 onboarding_confirm_boundaries |-> "boundaries"]

Confirm(action, at) ==
  Guided(action, at,
    [product EXCEPT !.onboarding.confirmed = @ \cup {Confirmation[action]}])

ConfigureTestmail(schema, at) ==
  Guided("onboarding_configure_testmail", at,
    [product EXCEPT !.onboarding.testMailbox = schema])

InitializeDemo(at) ==
  Guided("onboarding_initialize_demo", at,
    [product EXCEPT !.onboarding.status = "complete"])

(* Program and policy                                                       *)
CreateProgram(name, excluded, at) ==
  Guided("create_program", at,
    [product EXCEPT !.program = [status |-> "active", name |-> name,
                                 revision |-> 0, excluded |-> excluded]])

ImportPolicy(representation, at) ==
  Guided("import_policy", at,
    [product EXCEPT
       !.policy = [status |-> "imported_pending_acceptance",
                   hash |-> PolicyHash(product.program.excluded,
                                       representation)],
       !.program.revision = @ + 1])

AcceptPolicy(at) ==
  Guided("accept_policy", at,
    [product EXCEPT !.policy.status = "accepted_local"])

(* Campaign, identities and journey. A campaign that changes is a new       *)
(* revision.                                                                *)
Revised(campaign, status) ==
  [campaign EXCEPT !.status = status, !.revision = @ + 1]

CreateCampaign(budget, at) ==
  Guided("create_campaign", at,
    [product EXCEPT !.campaign = [status |-> "awaiting_local_approval",
                                  revision |-> 0,
                                  hash |-> product.policy.hash,
                                  budget |-> budget]])

ApproveCampaign(at) ==
  Guided("approve_campaign", at,
    [product EXCEPT !.campaign = Revised(@, "approved_local")])

PrepareIdentities(at) ==
  Guided("prepare_identities", at, [product EXCEPT !.identities = "inactive"])

StartJourney(at) ==
  Guided("start_journey", at,
    [product EXCEPT !.campaign = Revised(@, "running_local_simulation"),
                    !.journey = [status |-> "simulated_pending_inventory"]])

InspectInventory(at) ==
  Guided("inspect_inventory", at,
    [product EXCEPT !.journey.status = "completed_local_simulation",
                    !.inventory = [status |-> "inspected_local",
                                   hash |-> product.campaign.hash]])

(* Candidate, evidence and report                                           *)
GenerateCandidates(at) ==
  Guided("generate_candidates", at,
    [product EXCEPT !.candidate = [status |-> "generated",
                                   budget |-> product.campaign.budget]])

VerifyCandidate(at) ==
  Guided("verify_candidate", at,
    [product EXCEPT !.candidate.status = "verified_local_fixture"])

OpenEvidence(at) ==
  Guided("open_evidence", at,
    [product EXCEPT !.evidence = [status |-> "open_local_bundle",
                                  hash |-> product.policy.hash,
                                  verified |-> product.candidate,
                                  inspected |-> product.inventory]])

CreateReport(at) ==
  Guided("create_report", at,
    [product EXCEPT !.report = [status |-> "draft",
                                bundle |-> product.evidence]])

QueueReportReview(at) ==
  Guided("queue_report_review", at,
    [product EXCEPT !.report.status = "queued_for_local_review"])

ApproveLocalReport(at) ==
  Guided("approve_local_report", at,
    [product EXCEPT !.report.status = "approved_local_only",
                    !.campaign = Revised(@, "completed_local_only")])

-----------------------------------------------------------------------------
(* assertManagementAllowed                                                  *)
ProgramIsOpen == /\ NextIs("import_policy")
                 /\ product.program.status = "active"
                 /\ product.policy = Nothing

CampaignIsOpen == product.campaign.status \in {"approved_local",
                                               "running_local_simulation"}

JourneyIsOpen == /\ NextIs("inspect_inventory")
                 /\ product.journey.status = "simulated_pending_inventory"
                 /\ product.campaign.status = "running_local_simulation"

ManagementAllowed(action) ==
  /\ ~Finished
  /\ action = "edit_program" =>
       ProgramIsOpen /\ product.program.name = InitialName
  /\ action = "archive_program" => ProgramIsOpen
  /\ action = "start_identity_sessions" =>
       /\ NextIs("start_journey")
       /\ product.campaign # Nothing
       /\ product.identities = "inactive"
  /\ action \in {"pause_campaign", "cancel_campaign"} => CampaignIsOpen
  /\ action \in {"pause_journey", "cancel_journey"} => JourneyIsOpen

(* availableManagementActions: what the snapshot offers. It is a second     *)
(* copy of the conditions, kept by hand.                                    *)
OffersProgram == /\ NextAction = "import_policy"
                 /\ product.program.status = "active"
                 /\ product.policy = Nothing

OffersSessions == /\ NextAction = "start_journey"
                  /\ product.campaign # Nothing
                  /\ product.identities = "inactive"

(* Mutant: a campaign is offered for halting before it is approved.         *)
OffersOpenCampaign == \/ product.campaign.status = "awaiting_local_approval"
                      \/ product.campaign.status = "approved_local"
                      \/ product.campaign.status = "running_local_simulation"

OffersCampaign == \/ product.campaign.status = "approved_local"
                  \/ product.campaign.status = "running_local_simulation"

OffersJourney == /\ NextAction = "inspect_inventory"
                 /\ product.journey.status = "simulated_pending_inventory"
                 /\ product.campaign.status = "running_local_simulation"

AvailableManagementActions ==
  {a \in ManagementActions :
     /\ ~Finished
     /\ \/ a = "archive_program" /\ OffersProgram
        \/ a = "edit_program" /\ OffersProgram
              /\ product.program.name = InitialName
        \/ a = "start_identity_sessions" /\ OffersSessions
        \/ a \in {"pause_campaign", "cancel_campaign"} /\ OffersCampaign
        \/ a \in {"pause_journey", "cancel_journey"} /\ OffersJourney}

(* The management part of perform. The step stays where it is.              *)
Managed(action, at, after) ==
  /\ ManagementAllowed(action)
  /\ Timestamp(at)
  /\ product' = [after EXCEPT !.revision = @ + 1, !.last = at]
  /\ UNCHANGED context

EditProgram(at) ==
  Managed("edit_program", at,
    [product EXCEPT !.program.name = ReviewedName,
                    !.program.revision = @ + 1])

ArchiveProgram(at) ==
  Managed("archive_program", at,
    [product EXCEPT !.program.status = "archived",
                    !.program.revision = @ + 1,
                    !.terminal = "program_archived"])

StartIdentitySessions(at) ==
  Managed("start_identity_sessions", at,
    [product EXCEPT !.identities = "active_local"])

(* Mutant: the journey of a halted campaign stays pending.                  *)
HaltCampaignOnly(status, reason) ==
  [product EXCEPT !.campaign = Revised(@, status), !.terminal = reason]

(* haltCampaign: a journey that is still pending goes with the campaign, a  *)
(* completed one stays.                                                     *)
HaltCampaign(status, reason) ==
  [product EXCEPT
     !.campaign = Revised(@, status),
     !.journey.status = IF @ = "simulated_pending_inventory"
                        THEN status ELSE @,
     !.terminal = reason]

EndCampaign(action, at) ==
  \/ /\ action = "pause_campaign"
     /\ Managed(action, at,
          HaltCampaign("paused_fail_closed", "campaign_paused"))
  \/ /\ action = "cancel_campaign"
     /\ Managed(action, at,
          HaltCampaign("cancelled_fail_closed", "campaign_cancelled"))

(* haltJourney: the campaign goes with its journey.                         *)
HaltJourney(status, reason) ==
  [product EXCEPT !.journey.status = status,
                  !.campaign = Revised(@, status), !.terminal = reason]

EndJourney(action, at) ==
  \/ /\ action = "pause_journey"
     /\ Managed(action, at, HaltJourney("paused_fail_closed", "journey_paused"))
  \/ /\ action = "cancel_journey"
     /\ Managed(action, at,
          HaltJourney("cancelled_fail_closed", "journey_cancelled"))

-----------------------------------------------------------------------------
PerformGuided(at) ==
  \/ SystemCheck(at)
  \/ SecretStoreCheck(at)
  \/ \E action \in DOMAIN Confirmation : Confirm(action, at)
  \/ \E schema \in Mailboxes : ConfigureTestmail(schema, at)
  \/ InitializeDemo(at)
  \/ \E name \in Names, excluded \in Exclusions :
       CreateProgram(name, excluded, at)
  \/ \E representation \in Representations : ImportPolicy(representation, at)
  \/ AcceptPolicy(at)
  \/ \E budget \in Budgets : CreateCampaign(budget, at)
  \/ ApproveCampaign(at)
  \/ PrepareIdentities(at)
  \/ StartJourney(at)
  \/ InspectInventory(at)
  \/ GenerateCandidates(at)
  \/ VerifyCandidate(at)
  \/ OpenEvidence(at)
  \/ CreateReport(at)
  \/ QueueReportReview(at)
  \/ ApproveLocalReport(at)

PerformManagement(at) ==
  \/ EditProgram(at)
  \/ ArchiveProgram(at)
  \/ StartIdentitySessions(at)
  \/ \E action \in ManagementActions : EndCampaign(action, at)
  \/ \E action \in ManagementActions : EndJourney(action, at)

Perform(at) == PerformGuided(at) \/ PerformManagement(at)

(* A process that starts makes a new workflow for what it found out.        *)
StartProduct(at) ==
  /\ product' = NewProduct(at)
  /\ \E env \in Environments :
       context' = [readiness |-> DeriveRuntimeReadiness(env), demo |-> Fixture]

LocalProductInit ==
  /\ product = NewProduct(0)
  /\ context \in {[readiness |-> DeriveRuntimeReadiness(env),
                   demo |-> Fixture] : env \in Environments}

LocalProductNext == \E at \in 0..MaxTime : Perform(at) \/ StartProduct(at)

LocalProductSpec == LocalProductInit /\ [][LocalProductNext]_productVars

-----------------------------------------------------------------------------
(* What the snapshot offers, perform carries out: the next action never     *)
(* fails after the clock was read and kept, and the management actions on   *)
(* offer are exactly those that are allowed.                                *)
OfferedActionsApply ==
  /\ ~Finished => Prerequisite(NextAction)
  /\ AvailableManagementActions =
       {a \in ManagementActions : ManagementAllowed(a)}

(* Campaign, journey and workflow halt together: a journey is pending only  *)
(* under a running campaign, a halted one ends the workflow and takes what  *)
(* is still pending with it, and only a completed journey outlives its      *)
(* campaign.                                                                *)
HaltsTogether ==
  LET campaign == product.campaign.status
      journey == product.journey.status
  IN /\ journey = "simulated_pending_inventory" =>
          campaign = "running_local_simulation" /\ ~Finished
     /\ journey \in Halted => campaign = journey
     /\ campaign \in Halted =>
          journey \in {"none", "completed_local_simulation", campaign}
     /\ campaign \in Halted <=>
          product.terminal \in TerminalReasons \ {"program_archived"}
     /\ product.report.status = "approved_local_only" =>
          campaign = "completed_local_only"

(* What the later snapshots copied from the earlier ones is still what      *)
(* these say.                                                               *)
OneLineage ==
  /\ product.campaign # Nothing => product.campaign.hash = product.policy.hash
  /\ product.candidate # Nothing =>
       product.candidate.budget = product.campaign.budget
  /\ product.evidence # Nothing =>
       /\ product.evidence.hash = product.campaign.hash
       /\ product.evidence.hash = product.inventory.hash
       /\ product.evidence.verified = product.candidate
       /\ product.evidence.inspected = product.inventory
  /\ product.report # Nothing => product.report.bundle = product.evidence

(* The nine snapshots are kept apart and changed one or two at a time; they *)
(* never contradict each other, whatever is paused or cancelled between the *)
(* guided steps.                                                            *)
SnapshotsAgree == HaltsTogether /\ OneLineage
=============================================================================
