----------------------------- MODULE ControlPlane -----------------------------
(***************************************************************************)
(* The persistent control plane of one program: packages/control-plane/     *)
(* store.ts over the SQLite database of database.ts. Several operating-     *)
(* system processes (dashboard, CLI, simulation) open the same file. One    *)
(* transaction is one action; a call made of several transactions, or of a  *)
(* read followed by a write, is several actions of the calling process, so  *)
(* that the other processes, a crash or a failed commit can come between.   *)
(*                                                                         *)
(* Abstractions: a policy version stands for its text and hash (they are    *)
(* unique per program) and for the campaign contract bound to it; a signed  *)
(* statement is the revision it was signed for; signature, session and      *)
(* credential checks succeed for the enrolled operator.                     *)
(***************************************************************************)
EXTENDS CampaignMachine, FiniteSets

CONSTANTS Procs,        \* operating-system processes with the database open
          Campaigns,
          MaxPolicy,    \* bound: policy versions of the program
          MaxKill,      \* bound: kill-switch revision
          MaxRevision   \* bound: campaign revision a caller still updates

ASSUME BoundsAssumption ==
  /\ MaxPolicy \in Nat
  /\ MaxKill \in Nat
  /\ MaxRevision \in Nat

ASSUME CampaignsAssumption == Campaigns # {}

VARIABLES
  kill,             \* system_state row of the global kill switch
  clears,           \* expected revisions of the stored signed clears
  current,          \* programs.current_policy_version, 0 for none
  policyApproval,   \* the policy-acceptance approval of each version
  acceptedPolicies, \* versions with a row in policy_acceptances
  rows,             \* the campaigns table
  approvals,        \* campaign_contract approvals, one per decision
  pc,               \* what a process has left to do of its current call
  read,             \* the version or revision that call read or was signed for
  draft,            \* the campaign row that call is about to write
  approvedUnder     \* ghost: kill revision at the last approve of a campaign

database == <<kill, clears, current, policyApproval, acceptedPolicies, rows,
              approvals>>
vars == <<database, pc, read, draft, approvedUnder>>

Absent == [state |-> "absent", revision |-> 0, version |-> 0,
           approval |-> NoDecision, kill |-> "clear"]
NewDraft(version) == [Absent EXCEPT !.state = "draft", !.version = version]
NoDraft == [campaign |-> CHOOSE c \in Campaigns : TRUE, row |-> NewDraft(0)]

Versions == 1..MaxPolicy
ApprovalStatus == {"none", "open", "accepted", "rejected"}
NoApprovalRow == [status |-> "none", campaign |-> "none", version |-> 0]

Steps == {"idle", "down", "add_policy", "insert", "update", "pause", "audit",
          "clear"}

TypeOK ==
  /\ kill \in [value : {"clear", "engaged"}, revision : Nat, audited : BOOLEAN]
  /\ clears \subseteq Nat
  /\ current \in Nat
  /\ policyApproval \in [Versions -> ApprovalStatus]
  /\ acceptedPolicies \subseteq Versions
  /\ rows \in [Campaigns -> Row \cup {Absent}]
  /\ approvals \in [Decisions ->
       [status : ApprovalStatus, campaign : Campaigns, version : Nat]
         \cup {NoApprovalRow}]
  /\ pc \in [Procs -> Steps]
  /\ read \in [Procs -> Nat]
  /\ draft \in [Procs -> [campaign : Campaigns, row : Row]]
  /\ approvedUnder \in [Campaigns -> Nat]

-----------------------------------------------------------------------------
(* readKillSwitchActive: only a clear state backed by a signed clear for    *)
(* exactly the preceding revision counts as clear.                          *)
KillActive == ~(kill.value = "clear" /\ kill.audited
                /\ kill.revision - 1 \in clears)

Live(c) == rows[c].state = "running_simulation"

(* assertCampaignPersistenceBindings: what a row must satisfy to be read    *)
(* back (getCampaign) and to be written (insert, update).                   *)
OutlivesPolicy == {"paused", "blocked", "cancelled", "completed"}

ApprovalEvidence(c, row) ==
  \E d \in Decisions :
    /\ approvals[d] = [status |-> "accepted", campaign |-> c,
                       version |-> row.version]
    /\ row.approval = d

(* Mutant: a row may be read and written at any policy version.             *)
BindingsHoldAtAnyVersion(c, row) ==
  /\ row.version \in 1..current
  /\ row.state \in Unsafe \cup {"awaiting_campaign_approval"} =>
       row.version \in acceptedPolicies
  /\ row.state \in Unsafe =>
       ApprovalEvidence(c, row) /\ ~KillActive /\ row.kill = "clear"

(* Mutant: the kill switch in the row is trusted, the persisted one is not  *)
(* read again.                                                              *)
BindingsHoldByRowKill(c, row) ==
  /\ row.version \in 1..current
  /\ row.state \notin OutlivesPolicy => row.version = current
  /\ row.state \in Unsafe \cup {"awaiting_campaign_approval"} =>
       row.version \in acceptedPolicies
  /\ row.state \in Unsafe => ApprovalEvidence(c, row) /\ row.kill = "clear"

BindingsHold(c, row) ==
  /\ row.version \in 1..current
  /\ row.state \notin OutlivesPolicy => row.version = current
  /\ row.state \in Unsafe \cup {"awaiting_campaign_approval"} =>
       row.version \in acceptedPolicies
  /\ row.state \in Unsafe =>
       /\ ApprovalEvidence(c, row)
       /\ ~KillActive
       /\ row.kill = "clear"

Readable(c) == rows[c] # Absent /\ BindingsHold(c, rows[c])

(* pauseUnsafeCampaigns: one SQL UPDATE over the whole table.               *)
PauseUnsafe == rows' = [c \in Campaigns |-> PausedByKillSwitch(rows[c])]

Init ==
  /\ kill = [value |-> "engaged", revision |-> 0, audited |-> FALSE]
  /\ clears = {}
  /\ current = 0
  /\ policyApproval = [v \in Versions |-> "none"]
  /\ acceptedPolicies = {}
  /\ rows = [c \in Campaigns |-> Absent]
  /\ approvals = [d \in Decisions |-> NoApprovalRow]
  /\ pc = [p \in Procs |-> "idle"]
  /\ read = [p \in Procs |-> 0]
  /\ draft = [p \in Procs |-> NoDraft]
  /\ approvedUnder = [c \in Campaigns |-> 0]

Start(p, step, value, next) ==
  /\ pc[p] = "idle"
  /\ pc' = [pc EXCEPT ![p] = step]
  /\ read' = [read EXCEPT ![p] = value]
  /\ draft' = [draft EXCEPT ![p] = next]

Finish(p, step) ==
  /\ pc' = [pc EXCEPT ![p] = step]
  /\ read' = [read EXCEPT ![p] = 0]
  /\ draft' = [draft EXCEPT ![p] = NoDraft]

-----------------------------------------------------------------------------
(* addPolicyVersion reads the current version outside its transaction; the  *)
(* primary key of policy_versions then refuses a version that exists.       *)
AddPolicyRead(p) ==
  /\ current < MaxPolicy
  /\ Start(p, "add_policy", current + 1, NoDraft)
  /\ UNCHANGED <<database, approvedUnder>>

CanAddPolicy(p) == read[p] = current + 1

AddPolicyVersion(p) ==
  /\ pc[p] = "add_policy"
  /\ CanAddPolicy(p)
  /\ current' = read[p]
  /\ rows' = [c \in Campaigns |-> PausedByPolicyChange(rows[c], read[p])]
  /\ Finish(p, "idle")
  /\ UNCHANGED <<kill, clears, policyApproval, acceptedPolicies, approvals,
                 approvedUnder>>

(* persistApproval, decideApproval and acceptPolicy for a policy version;   *)
(* callers ask for the acceptance of the version they have just added.      *)
PersistPolicyApproval(v) ==
  /\ v = current
  /\ policyApproval[v] = "none"
  /\ policyApproval' = [policyApproval EXCEPT ![v] = "open"]
  /\ UNCHANGED <<kill, clears, current, acceptedPolicies, rows, approvals, pc,
                 read, draft, approvedUnder>>

DecidePolicyApproval(v, decision) ==
  /\ ~KillActive
  /\ policyApproval[v] = "open"
  /\ policyApproval' = [policyApproval EXCEPT ![v] = decision]
  /\ UNCHANGED <<kill, clears, current, acceptedPolicies, rows, approvals, pc,
                 read, draft, approvedUnder>>

AcceptPolicy(v) ==
  /\ ~KillActive
  /\ v = current
  /\ policyApproval[v] = "accepted"
  /\ v \notin acceptedPolicies
  /\ acceptedPolicies' = acceptedPolicies \cup {v}
  /\ UNCHANGED <<kill, clears, current, policyApproval, rows, approvals, pc,
                 read, draft, approvedUnder>>

(* insertCampaign checks the bindings and inserts in two transactions.      *)
InsertCheck(p, c) ==
  /\ BindingsHold(c, NewDraft(current))
  /\ Start(p, "insert", 0, [campaign |-> c, row |-> NewDraft(current)])
  /\ UNCHANGED <<database, approvedUnder>>

CanInsert(p) == rows[draft[p].campaign] = Absent

InsertCampaign(p) ==
  /\ pc[p] = "insert"
  /\ CanInsert(p)
  /\ rows' = [rows EXCEPT ![draft[p].campaign] = draft[p].row]
  /\ Finish(p, "idle")
  /\ UNCHANGED <<kill, clears, current, policyApproval, acceptedPolicies,
                 approvals, approvedUnder>>

(* persistApproval and decideApproval for a campaign contract; the digest   *)
(* in the approval binds the campaign and its policy version, no revision.  *)
PersistCampaignApproval(d, c) ==
  /\ Readable(c)
  /\ rows[c].state = "awaiting_campaign_approval"
  /\ approvals[d] = NoApprovalRow
  /\ approvals' = [approvals EXCEPT ![d] =
       [status |-> "open", campaign |-> c, version |-> rows[c].version]]
  /\ UNCHANGED <<kill, clears, current, policyApproval, acceptedPolicies, rows,
                 pc, read, draft, approvedUnder>>

DecideCampaignApproval(d, decision) ==
  /\ ~KillActive
  /\ approvals[d].status = "open"
  /\ approvals' = [approvals EXCEPT ![d].status = decision]
  /\ UNCHANGED <<kill, clears, current, policyApproval, acceptedPolicies, rows,
                 pc, read, draft, approvedUnder>>

-----------------------------------------------------------------------------
(* advanceCampaign: the next row is computed from a row and a kill status   *)
(* read before updateCampaign's transaction begins.                         *)
ContextOf(claim) ==
  [accepted |-> claim, startable |-> TRUE,
   kill |-> IF KillActive THEN "engaged" ELSE "clear"]

PrepareTransition(p, c, event, claim, d) ==
  /\ Readable(c)
  /\ rows[c].revision < MaxRevision
  /\ event = "approve" => approvals[d].status = "accepted"
  /\ MachineAllows(rows[c], event, ContextOf(claim))
  /\ Start(p, "update", rows[c].revision,
           [campaign |-> c,
            row |-> TransitionCampaign(rows[c], event, ContextOf(claim), d)])
  /\ UNCHANGED <<database, approvedUnder>>

PrepareRebind(p, c) ==
  /\ Readable(c)
  /\ rows[c].revision < MaxRevision
  /\ rows[c].state = "paused"
  /\ Start(p, "update", rows[c].revision,
           [campaign |-> c, row |-> RebindCampaign(rows[c], current)])
  /\ UNCHANGED <<database, approvedUnder>>

(* Mutant: an update without its optimistic revision check.                 *)
CanUpdateAnyRevision(p) ==
  LET c == draft[p].campaign IN
    /\ Readable(c)
    /\ StoreAllows(rows[c], draft[p].row)
    /\ BindingsHold(c, draft[p].row)

CanUpdate(p) ==
  LET c == draft[p].campaign IN
    /\ Readable(c)
    /\ rows[c].revision = read[p]
    /\ StoreAllows(rows[c], draft[p].row)
    /\ BindingsHold(c, draft[p].row)

UpdateCampaign(p) ==
  LET c == draft[p].campaign IN
    /\ pc[p] = "update"
    /\ CanUpdate(p)
    /\ rows' = [rows EXCEPT ![c] = draft[p].row]
    /\ approvedUnder' = [approvedUnder EXCEPT ![c] =
         IF draft[p].row.state = "approved" THEN kill.revision ELSE @]
    /\ Finish(p, "idle")
    /\ UNCHANGED <<kill, clears, current, policyApproval, acceptedPolicies,
                   approvals>>

-----------------------------------------------------------------------------
(* setKillSwitch(true): three commits in this order.                        *)
Engage(p) ==
  /\ kill.revision < MaxKill
  /\ kill' = [value |-> "engaged", revision |-> kill.revision + 1,
              audited |-> FALSE]
  /\ Start(p, "pause", kill.revision + 1, NoDraft)
  /\ UNCHANGED <<clears, current, policyApproval, acceptedPolicies, rows,
                 approvals, approvedUnder>>

EngagePause(p) ==
  /\ pc[p] = "pause"
  /\ PauseUnsafe
  /\ pc' = [pc EXCEPT ![p] = "audit"]
  /\ UNCHANGED <<kill, clears, current, policyApproval, acceptedPolicies,
                 approvals, read, draft, approvedUnder>>

(* Mutant: the audit is linked to whatever engagement is current.           *)
CanAuditAnyRevision(p) == kill.value = "engaged" /\ ~kill.audited

CanAudit(p) ==
  /\ kill.value = "engaged"
  /\ kill.revision = read[p]
  /\ ~kill.audited

EngageAudit(p) ==
  /\ pc[p] = "audit"
  /\ CanAudit(p)
  /\ kill' = [kill EXCEPT !.audited = TRUE]
  /\ Finish(p, "idle")
  /\ UNCHANGED <<clears, current, policyApproval, acceptedPolicies, rows,
                 approvals, approvedUnder>>

(* Mutant: the signed clear names the preceding revision.                   *)
SignClearOffByOne(p) ==
  /\ kill.value = "engaged"
  /\ kill.revision < MaxKill
  /\ Start(p, "clear", kill.revision - 1, NoDraft)
  /\ UNCHANGED <<database, approvedUnder>>

(* The operator signs a clear for the revision describeKillSwitchClear      *)
(* returned; clearKillSwitch verifies it against the revision it finds.     *)
SignClear(p) ==
  /\ kill.value = "engaged"
  /\ kill.revision < MaxKill
  /\ Start(p, "clear", kill.revision, NoDraft)
  /\ UNCHANGED <<database, approvedUnder>>

(* Mutant: a clear signed for any engagement clears the current one.        *)
CanClearAnyRevision(p) == kill.value = "engaged"

CanClear(p) == kill.value = "engaged" /\ kill.revision = read[p]

(* Mutant: a clear trusts the engagement to have paused everything.         *)
ClearWithoutPausing(p) ==
  /\ pc[p] = "clear"
  /\ CanClear(p)
  /\ clears' = clears \cup {read[p]}
  /\ kill' = [value |-> "clear", revision |-> kill.revision + 1,
              audited |-> TRUE]
  /\ Finish(p, "idle")
  /\ UNCHANGED <<rows, current, policyApproval, acceptedPolicies, approvals,
                 approvedUnder>>

ClearKillSwitch(p) ==
  /\ pc[p] = "clear"
  /\ CanClear(p)
  /\ PauseUnsafe
  /\ clears' = clears \cup {read[p]}
  /\ kill' = [value |-> "clear", revision |-> kill.revision + 1,
              audited |-> TRUE]
  /\ Finish(p, "idle")
  /\ UNCHANGED <<current, policyApproval, acceptedPolicies, approvals,
                 approvedUnder>>

-----------------------------------------------------------------------------
(* A call that is not an engagement leaves nothing half done: whether its   *)
(* condition no longer holds, its transaction cannot be taken               *)
(* (CONTROL_PLANE_BUSY) or its process dies, the call is gone, the database *)
(* is as it was, and no caller retries it.                                  *)
Abandon(p) ==
  /\ pc[p] \in {"add_policy", "insert", "update", "clear"}
  /\ Finish(p, "idle")
  /\ UNCHANGED <<database, approvedUnder>>

(* The engagement has been overtaken: KILL_SWITCH_STATE_CONFLICT.           *)
AuditRefused(p) ==
  /\ pc[p] = "audit"
  /\ ~CanAudit(p)
  /\ Finish(p, "idle")
  /\ UNCHANGED <<database, approvedUnder>>

(* The second or third commit of an engagement fails and the call throws.   *)
EngagementFails(p) ==
  /\ pc[p] \in {"pause", "audit"}
  /\ Finish(p, "idle")
  /\ UNCHANGED <<database, approvedUnder>>

(* The process dies between two commits of an engagement.                   *)
Crash(p) ==
  /\ pc[p] \in {"pause", "audit"}
  /\ Finish(p, "down")
  /\ UNCHANGED <<database, approvedUnder>>

(* Mutant: a restarted store leaves the campaigns as it finds them.         *)
ReconcileNothing == UNCHANGED rows

(* The constructor of ControlPlaneStore reconciles before anything else.    *)
Reconcile == IF KillActive THEN PauseUnsafe ELSE UNCHANGED rows

Restart(p) ==
  /\ pc[p] = "down"
  /\ Reconcile
  /\ Finish(p, "idle")
  /\ UNCHANGED <<kill, clears, current, policyApproval, acceptedPolicies,
                 approvals, approvedUnder>>

Reopen(p) ==
  /\ pc[p] = "idle"
  /\ Reconcile
  /\ UNCHANGED <<kill, clears, current, policyApproval, acceptedPolicies,
                 approvals, pc, read, draft, approvedUnder>>

-----------------------------------------------------------------------------
PolicyStep ==
  \/ \E p \in Procs : AddPolicyRead(p) \/ AddPolicyVersion(p)
  \/ \E v \in Versions :
       \/ PersistPolicyApproval(v)
       \/ AcceptPolicy(v)
       \/ \E decision \in {"accepted", "rejected"} :
            DecidePolicyApproval(v, decision)

CampaignStep ==
  \/ \E p \in Procs, c \in Campaigns :
       \/ InsertCheck(p, c)
       \/ PrepareRebind(p, c)
       \/ \E event \in Events, claim \in 0..current, d \in Decisions :
            PrepareTransition(p, c, event, claim, d)
  \/ \E p \in Procs : InsertCampaign(p) \/ UpdateCampaign(p)
  \/ \E d \in Decisions :
       \/ \E c \in Campaigns : PersistCampaignApproval(d, c)
       \/ \E decision \in {"accepted", "rejected"} :
            DecideCampaignApproval(d, decision)

KillStep ==
  \E p \in Procs :
    \/ Engage(p)
    \/ EngagePause(p)
    \/ EngageAudit(p)
    \/ SignClear(p)
    \/ ClearKillSwitch(p)

ReliableNext ==
  \/ PolicyStep
  \/ CampaignStep
  \/ KillStep
  \/ \E p \in Procs : Abandon(p) \/ AuditRefused(p) \/ Crash(p) \/ Restart(p) \/ Reopen(p)

Next == ReliableNext \/ \E p \in Procs : EngagementFails(p)

Spec == Init /\ [][Next]_vars

-----------------------------------------------------------------------------
(***************************************************************************)
(* Safety.                                                                  *)
(***************************************************************************)

(* An approved or running campaign is bound to the program's current policy *)
(* version, which was accepted, and to an accepted human decision for that  *)
(* campaign and version, whatever policy change, rebind or stale update     *)
(* came in between (store.ts assertCampaignPersistenceBindings).            *)
ActiveCampaignUsesCurrentPolicy ==
  \A c \in Campaigns : rows[c].state \in Unsafe =>
    /\ rows[c].version = current
    /\ current \in acceptedPolicies
    /\ ApprovalEvidence(c, rows[c])

(* While the switch is clear, an approved or running campaign was approved  *)
(* after the clear: a campaign that an unfinished engagement left approved  *)
(* or running is never carried over into the next clear epoch (store.ts     *)
(* clearKillSwitch pauses in its own transaction).                          *)
NoCampaignSurvivesAClear ==
  ~KillActive =>
    \A c \in Campaigns : rows[c].state \in Unsafe =>
      approvedUnder[c] = kill.revision

(* An engagement whose audit is linked has paused everything: the linked    *)
(* audit record is never about an engagement that another one has overtaken *)
(* (store.ts setKillSwitch, the revision guard of the third commit).        *)
AuditedEngagementIsPaused ==
  kill.value = "engaged" /\ kill.audited =>
    \A c \in Campaigns : rows[c].state \notin Unsafe

(* A signed clear is used once: when two processes hold a clear signed for  *)
(* the same engagement and one has been executed, the other is refused, and *)
(* no later engagement gives it effect again.                               *)
SignedClearIsUsedOnce ==
  \A p \in Procs : pc[p] = "clear" /\ read[p] \in clears => ~CanClear(p)

-----------------------------------------------------------------------------
(***************************************************************************)
(* Action properties.                                                       *)
(***************************************************************************)

(* No update is lost and none is applied to a row it was not computed from: *)
(* a stored campaign changes by exactly one revision at a time, and never   *)
(* again once it is completed or cancelled.                                 *)
RevisionStep ==
  \A c \in Campaigns : rows[c] # Absent /\ rows'[c] # rows[c] =>
    /\ rows'[c].revision = rows[c].revision + 1
    /\ rows[c].state \notin Ended

NoLostUpdate == [][RevisionStep]_vars

(* A campaign that still waits for an acceptance or an approval when the    *)
(* policy moves on is frozen: no caller can approve it, and none can cancel *)
(* or block it either (store.ts CAMPAIGN_POLICY_STALE on the read).         *)
StaleOpenCampaign(c) ==
  /\ rows[c] # Absent
  /\ rows[c].state \notin OutlivesPolicy
  /\ rows[c].version # current

FrozenStep ==
  \A c \in Campaigns : StaleOpenCampaign(c) => rows'[c] = rows[c]

StaleOpenCampaignFrozen == [][FrozenStep]_vars

-----------------------------------------------------------------------------
(***************************************************************************)
(* Refinement: each campaign is one instance of CampaignEvidence.           *)
(***************************************************************************)
Evidence(c) == INSTANCE CampaignEvidence WITH
  killActive <- KillActive, live <- Live(c), revision <- rows[c].revision

EvidenceStep ==
  \A c \in Campaigns :
    Evidence(c)!EvidenceNext \/ UNCHANGED Evidence(c)!evidence

(* Every campaign behaves as CampaignEvidence says (its EvidenceSpec, with  *)
(* the quantifier over campaigns inside the box): a step of the control     *)
(* plane is a step of that specification or does not touch its variables.   *)
ImplementsCampaignEvidence ==
  /\ \A c \in Campaigns : Evidence(c)!EvidenceInit
  /\ [][EvidenceStep]_vars

-----------------------------------------------------------------------------
(***************************************************************************)
(* Liveness. An engagement whose commits do not fail runs to its end, and a *)
(* process that died in one is started again; nothing in the code retries a *)
(* failed commit, so ReliableNext has none.                                 *)
(***************************************************************************)
Fairness ==
  \A p \in Procs : WF_vars(EngagePause(p)) /\ WF_vars(Restart(p))

FairSpec == Init /\ [][ReliableNext]_vars /\ Fairness

(* A campaign that an engagement finds approved or running is paused in the *)
(* end: by the engaging process, or when a crashed one comes back.          *)
EngagedCampaignGetsPaused ==
  \A c \in Campaigns :
    KillActive /\ rows[c].state \in Unsafe ~> rows[c].state \notin Unsafe
=============================================================================
