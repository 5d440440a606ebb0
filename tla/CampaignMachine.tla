--------------------------- MODULE CampaignMachine ---------------------------
(***************************************************************************)
(* The campaign state machine of packages/control-plane/campaign-machine.ts *)
(* (what a caller computes before it asks for an update) and the transition *)
(* table of packages/control-plane/store.ts (what the store then accepts).  *)
(* Both are pure: a campaign row goes in, a campaign row comes out.         *)
(*                                                                         *)
(* A row keeps the fields the two files branch on. `version' stands for the *)
(* policy version with its hash and the contract bound to them, `approval'  *)
(* for the pair (humanApprovedBy, humanApprovedAt), i.e. the decision that  *)
(* was taken, or NoDecision when both are null.                             *)
(***************************************************************************)
EXTENDS Integers

CONSTANTS Decisions,    \* the human decisions that can approve a campaign
          NoDecision    \* no human approval is recorded

ASSUME NoDecisionAssumption == NoDecision \notin Decisions

States == {"draft", "awaiting_policy_acceptance", "awaiting_campaign_approval",
           "approved", "running_simulation", "paused", "blocked", "completed",
           "cancelled"}
Unsafe == {"approved", "running_simulation"}     \* could still execute
Ended  == {"completed", "cancelled"}

KillStatus == {"clear", "engaged"}

Row == [state : States, revision : Nat, version : Nat,
        approval : Decisions \cup {NoDecision}, kill : KillStatus]

Context == [accepted : Nat, kill : KillStatus, startable : BOOLEAN]

-----------------------------------------------------------------------------
(* The states each event may be applied in (requireState and its kin).     *)
Sources ==
  [request_approval |-> {"draft"},
   policy_accepted  |-> {"awaiting_policy_acceptance"},
   approve          |-> {"awaiting_campaign_approval"},
   start_simulation |-> {"approved"},
   policy_drift     |-> Unsafe,
   pause            |-> {"running_simulation"},
   resume_requested |-> {"paused"},
   complete         |-> {"running_simulation"},
   cancel           |-> States \ Ended,
   block            |-> States \ Ended]

Events == DOMAIN Sources

(* Events whose guard is assertPolicyAccepted; the accepted version is what *)
(* the caller says it is.                                                   *)
NeedAcceptance == {"policy_accepted", "approve", "start_simulation",
                   "resume_requested"}
KeepApproval == {"request_approval", "policy_accepted", "start_simulation"}

PolicyAccepted(row, ctx) == ctx.accepted = row.version

(* assertStartable: contract validity window, assets and configuration are  *)
(* one boolean of the context; the kill switch is a condition of its own.   *)
Startable(ctx) == ctx.startable /\ ctx.kill = "clear"

MachineAllows(row, event, ctx) ==
  /\ row.state \in Sources[event]
  /\ event \in NeedAcceptance => PolicyAccepted(row, ctx)
  /\ event = "start_simulation" => Startable(ctx)

Target(row, event, ctx) ==
  [request_approval |-> IF PolicyAccepted(row, ctx)
                        THEN "awaiting_campaign_approval"
                        ELSE "awaiting_policy_acceptance",
   policy_accepted  |-> "awaiting_campaign_approval",
   approve          |-> "approved",
   start_simulation |-> "running_simulation",
   policy_drift     |-> "paused",
   pause            |-> "paused",
   resume_requested |-> "awaiting_campaign_approval",
   complete         |-> "completed",
   cancel           |-> "cancelled",
   block            |-> "blocked"][event]

TransitionCampaign(row, event, ctx, decision) ==
  [state    |-> Target(row, event, ctx),
   revision |-> row.revision + 1,
   version  |-> row.version,
   approval |-> CASE event = "approve" -> decision
                  [] event \in KeepApproval -> row.approval
                  [] OTHER -> NoDecision,
   kill     |-> ctx.kill]

(* simulation/orchestrator.ts rebinds a paused campaign to a newer policy   *)
(* without going through the machine.                                       *)
RebindCampaign(row, version) ==
  [state |-> "awaiting_campaign_approval", revision |-> row.revision + 1,
   version |-> version, approval |-> NoDecision, kill |-> row.kill]

-----------------------------------------------------------------------------
(* The store's own table: the successor states it accepts for a row.        *)
AllowedTransitions ==
  [draft |-> {"awaiting_policy_acceptance", "awaiting_campaign_approval",
              "blocked", "cancelled"},
   awaiting_policy_acceptance |-> {"awaiting_campaign_approval", "blocked",
                                   "cancelled"},
   awaiting_campaign_approval |-> {"approved", "blocked", "cancelled"},
   approved |-> {"running_simulation", "paused", "blocked", "cancelled"},
   running_simulation |-> {"paused", "blocked", "completed", "cancelled"},
   paused |-> {"awaiting_campaign_approval", "blocked", "cancelled"},
   blocked |-> {"cancelled"},
   completed |-> {},
   cancelled |-> {}]

StoreAllows(from, to) ==
  /\ to.state \in AllowedTransitions[from.state]
  /\ to.state \notin Unsafe => to.approval = NoDecision
  /\ from.version # to.version =>
       from.state = "paused" /\ to.state = "awaiting_campaign_approval"

(* What pauses a campaign behind its caller's back: one SQL UPDATE over all *)
(* approved and running rows, by the kill switch or by a policy change.     *)
PausedByKillSwitch(row) ==
  IF row.state \in Unsafe
  THEN [row EXCEPT !.state = "paused", !.revision = @ + 1,
                   !.approval = NoDecision, !.kill = "engaged"]
  ELSE row

(* Mutant: a policy change forgets the approved campaigns.                  *)
PausedByPolicyChangeIfRunning(row, version) ==
  IF row.state = "running_simulation" /\ row.version # version
  THEN [row EXCEPT !.state = "paused", !.revision = @ + 1,
                   !.approval = NoDecision]
  ELSE row

PausedByPolicyChange(row, version) ==
  IF row.state \in Unsafe /\ row.version # version
  THEN [row EXCEPT !.state = "paused", !.revision = @ + 1,
                   !.approval = NoDecision]
  ELSE row
=============================================================================
