-------------------------- MODULE ControlPlaneProofs --------------------------
(***************************************************************************)
(* Proofs about the control plane, for every set of processes, campaigns    *)
(* and decisions and every bound. The inductive invariant Inv adds to the   *)
(* safety properties what a call between two of its transactions knows of   *)
(* the database, which other calls may have changed since.                  *)
(***************************************************************************)
EXTENDS ControlPlane, TLAPS

(* What a call is about to write: a new draft, or a row one revision past   *)
(* the one it was computed from.                                            *)
DraftInv ==
  \A p \in Procs :
    /\ pc[p] = "insert" =>
         draft[p].row.state = "draft" /\ draft[p].row.revision = 0
    /\ pc[p] = "update" => draft[p].row.revision = read[p] + 1

(* A signed clear on record was signed for a revision that has passed.      *)
ClearsInv == \A n \in clears : n < kill.revision

(* An engagement is no newer than the switch, and once it has paused the    *)
(* campaigns nothing becomes approved until it is overtaken.                *)
EngagementInv ==
  \A p \in Procs :
    /\ pc[p] \in {"pause", "audit"} => read[p] <= kill.revision
    /\ pc[p] = "audit" /\ kill.value = "engaged" /\ kill.revision = read[p] =>
         \A c \in Campaigns : rows[c].state \notin Unsafe

Inv ==
  /\ TypeOK
  /\ DraftInv
  /\ ClearsInv
  /\ EngagementInv
  /\ ActiveCampaignUsesCurrentPolicy
  /\ NoCampaignSurvivesAClear
  /\ AuditedEngagementIsPaused

-----------------------------------------------------------------------------
(* The rows the machine and the store compute.                              *)
DraftRecord == [campaign : Campaigns, row : Row]

LEMMA EventNames ==
  Events = {"request_approval", "policy_accepted", "approve",
            "start_simulation", "policy_drift", "pause", "resume_requested",
            "complete", "cancel", "block"}
  BY DEF Events, Sources

LEMMA TransitionType ==
  ASSUME NEW row \in Row, NEW event \in Events, NEW claim, NEW d \in Decisions
  PROVE  /\ TransitionCampaign(row, event, ContextOf(claim), d) \in Row
         /\ TransitionCampaign(row, event, ContextOf(claim), d).revision
              = row.revision + 1
  <1> DEFINE ctx == ContextOf(claim)
  <1>1. ctx.kill \in KillStatus
    BY DEF ContextOf, KillStatus
  <1> HIDE DEF ctx
  <1>2. Target(row, event, ctx) \in States
    BY EventNames DEF Target, States
  <1>3. TransitionCampaign(row, event, ctx, d).approval
          \in Decisions \cup {NoDecision}
    BY DEF TransitionCampaign, Row
  <1>4. TransitionCampaign(row, event, ctx, d).revision = row.revision + 1
    BY DEF TransitionCampaign
  <1> HIDE DEF Target
  <1>5. TransitionCampaign(row, event, ctx, d) \in Row
    BY <1>1, <1>2, <1>3 DEF TransitionCampaign, Row
  <1> QED
    BY <1>4, <1>5 DEF ctx

LEMMA RebindType ==
  ASSUME NEW row \in Row, NEW version \in Nat
  PROVE  /\ RebindCampaign(row, version) \in Row
         /\ RebindCampaign(row, version).revision = row.revision + 1
  BY DEF RebindCampaign, Row, States

LEMMA NewDraftType ==
  ASSUME NEW version \in Nat
  PROVE  /\ NewDraft(version) \in Row
         /\ NewDraft(version).state = "draft"
         /\ NewDraft(version).revision = 0
  BY DEF NewDraft, Absent, Row, States, KillStatus

LEMMA NoDraftType == NoDraft \in DraftRecord
  <1>1. (CHOOSE c \in Campaigns : TRUE) \in Campaigns
    BY CampaignsAssumption
  <1>2. NewDraft(0) \in Row
    BY NewDraftType
  <1> QED
    BY <1>1, <1>2 DEF NoDraft, DraftRecord

(* A pause by the kill switch or by a policy change touches the rows that   *)
(* could still execute and moves each by one revision.                      *)
LEMMA KillPause ==
  ASSUME NEW row \in Row \cup {Absent}
  PROVE  /\ PausedByKillSwitch(row) \in Row \cup {Absent}
         /\ PausedByKillSwitch(row).state \notin Unsafe
         /\ row.state \notin Unsafe => PausedByKillSwitch(row) = row
         /\ row.state \in Unsafe =>
              PausedByKillSwitch(row).revision = row.revision + 1
  <1>1. CASE row.state \in Unsafe
    <2>1. row \in Row
      BY <1>1 DEF Absent, Unsafe
    <2>2. row.revision + 1 \in Nat
      BY <2>1 DEF Row
    <2>3. PausedByKillSwitch(row) =
            [state |-> "paused", revision |-> row.revision + 1,
             version |-> row.version, approval |-> NoDecision,
             kill |-> "engaged"]
      BY <1>1, <2>1 DEF PausedByKillSwitch, Row
    <2>4. PausedByKillSwitch(row) \in Row
      BY <2>1, <2>2, <2>3 DEF Row, States, KillStatus
    <2> QED
      BY <1>1, <2>3, <2>4 DEF Unsafe
  <1> QED
    BY <1>1 DEF PausedByKillSwitch

LEMMA PolicyPause ==
  ASSUME NEW row \in Row \cup {Absent}, NEW version \in Nat
  PROVE  /\ PausedByPolicyChange(row, version) \in Row \cup {Absent}
         /\ PausedByPolicyChange(row, version).state \in Unsafe =>
              row.version = version
         /\ row.state \notin Unsafe \/ row.version = version =>
              PausedByPolicyChange(row, version) = row
         /\ row.state \in Unsafe /\ row.version # version =>
              PausedByPolicyChange(row, version).revision = row.revision + 1
  <1>1. CASE row.state \in Unsafe /\ row.version # version
    <2>1. row \in Row
      BY <1>1 DEF Absent, Unsafe
    <2>2. row.revision + 1 \in Nat
      BY <2>1 DEF Row
    <2>3. PausedByPolicyChange(row, version) =
            [state |-> "paused", revision |-> row.revision + 1,
             version |-> row.version, approval |-> NoDecision,
             kill |-> row.kill]
      BY <1>1, <2>1 DEF PausedByPolicyChange, Row
    <2>4. PausedByPolicyChange(row, version) \in Row
      BY <2>1, <2>2, <2>3 DEF Row, States
    <2> QED
      BY <1>1, <2>3, <2>4 DEF Unsafe
  <1> QED
    BY <1>1 DEF PausedByPolicyChange

(* What the store's table says of the states that could still execute.      *)
LEMMA StoreTable ==
  ASSUME NEW from \in Row \cup {Absent}, from # Absent, NEW to \in Row,
         StoreAllows(from, to)
  PROVE  /\ from.state \notin Ended
         /\ to.state = "running_simulation" => from.state = "approved"
         /\ to.state # from.state
  BY DEF StoreAllows, AllowedTransitions, Row, States, Ended

-----------------------------------------------------------------------------
CallTypeOK ==
  /\ pc \in [Procs -> Steps]
  /\ read \in [Procs -> Nat]
  /\ draft \in [Procs -> DraftRecord]

LEMMA StartType ==
  ASSUME TypeOK, NEW p \in Procs, NEW step \in Steps, NEW value \in Nat,
         NEW next \in DraftRecord, Start(p, step, value, next)
  PROVE  CallTypeOK'
  BY DEF TypeOK, Start, CallTypeOK, DraftRecord

LEMMA FinishType ==
  ASSUME TypeOK, NEW p \in Procs, NEW step \in Steps, Finish(p, step)
  PROVE  CallTypeOK'
  BY NoDraftType DEF TypeOK, Finish, CallTypeOK, DraftRecord

LEMMA PauseType ==
  ASSUME TypeOK, PauseUnsafe
  PROVE  /\ rows' \in [Campaigns -> Row \cup {Absent}]
         /\ \A c \in Campaigns : rows'[c].state \notin Unsafe
         /\ \A c \in Campaigns : rows'[c] = PausedByKillSwitch(rows[c])
  BY KillPause DEF TypeOK, PauseUnsafe

LEMMA ReconcileType ==
  ASSUME TypeOK, Reconcile
  PROVE  /\ rows' \in [Campaigns -> Row \cup {Absent}]
         /\ \/ UNCHANGED rows
            \/ KillActive /\ PauseUnsafe
  BY PauseType DEF Reconcile, TypeOK

LEMMA InitInv == Init => Inv
  <1> SUFFICES ASSUME Init PROVE Inv
    OBVIOUS
  <1>1. draft \in [Procs -> DraftRecord]
    BY NoDraftType DEF Init
  <1>2. TypeOK
    BY <1>1 DEF Init, TypeOK, DraftRecord, ApprovalStatus, Steps
  <1>3. \A c \in Campaigns : rows[c].state \notin Unsafe
    BY DEF Init, Absent, Unsafe
  <1> QED
    BY <1>2, <1>3
       DEF Init, Inv, DraftInv, ClearsInv, EngagementInv,
           ActiveCampaignUsesCurrentPolicy, NoCampaignSurvivesAClear,
           AuditedEngagementIsPaused

-----------------------------------------------------------------------------
LEMMA PolicyType ==
  ASSUME TypeOK, PolicyStep
  PROVE  TypeOK'
  <1> USE DEF TypeOK, CallTypeOK, DraftRecord
  <1>1. ASSUME NEW p \in Procs, AddPolicyRead(p) PROVE TypeOK'
    <2>1. CallTypeOK'
      BY <1>1, NoDraftType, StartType DEF AddPolicyRead, Steps
    <2> QED
      BY <1>1, <2>1 DEF AddPolicyRead, database
  <1>2. ASSUME NEW p \in Procs, AddPolicyVersion(p) PROVE TypeOK'
    <2>1. CallTypeOK'
      BY <1>2, FinishType DEF AddPolicyVersion, Steps
    <2>2. rows' \in [Campaigns -> Row \cup {Absent}]
      BY <1>2, PolicyPause DEF AddPolicyVersion
    <2> QED
      BY <1>2, <2>1, <2>2 DEF AddPolicyVersion
  <1>3. ASSUME NEW v \in Versions,
               \/ PersistPolicyApproval(v)
               \/ AcceptPolicy(v)
               \/ \E decision \in {"accepted", "rejected"} :
                    DecidePolicyApproval(v, decision)
        PROVE  TypeOK'
    BY <1>3
       DEF PersistPolicyApproval, AcceptPolicy, DecidePolicyApproval,
           ApprovalStatus
  <1> QED
    BY <1>1, <1>2, <1>3 DEF PolicyStep

LEMMA CampaignType ==
  ASSUME TypeOK, CampaignStep
  PROVE  TypeOK'
  <1> USE DEF TypeOK, CallTypeOK, DraftRecord
  <1>1. ASSUME NEW p \in Procs, NEW c \in Campaigns, InsertCheck(p, c)
        PROVE  TypeOK'
    <2>1. [campaign |-> c, row |-> NewDraft(current)] \in DraftRecord
      BY NewDraftType
    <2>2. CallTypeOK'
      BY <1>1, <2>1, StartType DEF InsertCheck, Steps
    <2> QED
      BY <1>1, <2>2 DEF InsertCheck, database
  <1>2. ASSUME NEW p \in Procs, NEW c \in Campaigns, PrepareRebind(p, c)
        PROVE  TypeOK'
    <2>1. rows[c] \in Row
      BY <1>2 DEF PrepareRebind, Readable
    <2>2. [campaign |-> c, row |-> RebindCampaign(rows[c], current)]
            \in DraftRecord
      BY <2>1, RebindType
    <2>3. rows[c].revision \in Nat
      BY <2>1 DEF Row
    <2>4. CallTypeOK'
      BY <1>2, <2>2, <2>3, StartType DEF PrepareRebind, Steps
    <2> QED
      BY <1>2, <2>4 DEF PrepareRebind, database
  <1>3. ASSUME NEW p \in Procs, NEW c \in Campaigns, NEW event \in Events,
               NEW claim \in 0..current, NEW d \in Decisions,
               PrepareTransition(p, c, event, claim, d)
        PROVE  TypeOK'
    <2> DEFINE next == TransitionCampaign(rows[c], event, ContextOf(claim), d)
    <2>1. rows[c] \in Row
      BY <1>3 DEF PrepareTransition, Readable
    <2>2. next \in Row
      BY <2>1, TransitionType
    <2>3. rows[c].revision \in Nat
      BY <2>1 DEF Row
    <2>4. Start(p, "update", rows[c].revision, [campaign |-> c, row |-> next])
      BY <1>3 DEF PrepareTransition
    <2> HIDE DEF next
    <2>5. CallTypeOK'
      BY <2>2, <2>3, <2>4, StartType DEF Steps
    <2> QED
      BY <1>3, <2>5 DEF PrepareTransition, database
  <1>4. ASSUME NEW p \in Procs, InsertCampaign(p) PROVE TypeOK'
    <2>1. CallTypeOK'
      BY <1>4, FinishType DEF InsertCampaign, Steps
    <2>2. rows' \in [Campaigns -> Row \cup {Absent}]
      BY <1>4 DEF InsertCampaign
    <2> QED
      BY <1>4, <2>1, <2>2 DEF InsertCampaign
  <1>5. ASSUME NEW p \in Procs, UpdateCampaign(p) PROVE TypeOK'
    <2>1. CallTypeOK'
      BY <1>5, FinishType DEF UpdateCampaign, Steps
    <2>2. rows' \in [Campaigns -> Row \cup {Absent}]
      BY <1>5 DEF UpdateCampaign
    <2>3. approvedUnder' \in [Campaigns -> Nat]
      BY <1>5 DEF UpdateCampaign
    <2> QED
      BY <1>5, <2>1, <2>2, <2>3 DEF UpdateCampaign
  <1>6. ASSUME NEW d \in Decisions, NEW c \in Campaigns,
               PersistCampaignApproval(d, c)
        PROVE  TypeOK'
    <2>1. rows[c].version \in Nat
      BY <1>6 DEF PersistCampaignApproval, Readable, Row
    <2> QED
      BY <1>6, <2>1 DEF PersistCampaignApproval, ApprovalStatus
  <1>7. ASSUME NEW d \in Decisions, NEW decision \in {"accepted", "rejected"},
               DecideCampaignApproval(d, decision)
        PROVE  TypeOK'
    <2>1. approvals[d] # NoApprovalRow
      BY <1>7 DEF DecideCampaignApproval, NoApprovalRow
    <2> QED
      BY <1>7, <2>1 DEF DecideCampaignApproval, ApprovalStatus
  <1> QED
    BY <1>1, <1>2, <1>3, <1>4, <1>5, <1>6, <1>7 DEF CampaignStep

LEMMA KillType ==
  ASSUME TypeOK, KillStep
  PROVE  TypeOK'
  <1> USE DEF TypeOK, CallTypeOK, DraftRecord
  <1>1. ASSUME NEW p \in Procs, Engage(p) PROVE TypeOK'
    <2>1. CallTypeOK'
      BY <1>1, NoDraftType, StartType DEF Engage, Steps
    <2> QED
      BY <1>1, <2>1 DEF Engage
  <1>2. ASSUME NEW p \in Procs, EngagePause(p) PROVE TypeOK'
    BY <1>2, PauseType DEF EngagePause, Steps
  <1>3. ASSUME NEW p \in Procs, EngageAudit(p) PROVE TypeOK'
    <2>1. CallTypeOK'
      BY <1>3, FinishType DEF EngageAudit, Steps
    <2> QED
      BY <1>3, <2>1 DEF EngageAudit
  <1>4. ASSUME NEW p \in Procs, SignClear(p) PROVE TypeOK'
    <2>1. CallTypeOK'
      BY <1>4, NoDraftType, StartType DEF SignClear, Steps
    <2> QED
      BY <1>4, <2>1 DEF SignClear, database
  <1>5. ASSUME NEW p \in Procs, ClearKillSwitch(p) PROVE TypeOK'
    <2>1. CallTypeOK'
      BY <1>5, FinishType DEF ClearKillSwitch, Steps
    <2>2. rows' \in [Campaigns -> Row \cup {Absent}]
      BY <1>5, PauseType DEF ClearKillSwitch
    <2>3. kill' \in [value : {"clear", "engaged"}, revision : Nat,
                     audited : BOOLEAN]
      BY <1>5 DEF ClearKillSwitch
    <2>4. clears' \subseteq Nat
      BY <1>5 DEF ClearKillSwitch
    <2> QED
      BY <1>5, <2>1, <2>2, <2>3, <2>4 DEF ClearKillSwitch
  <1> QED
    BY <1>1, <1>2, <1>3, <1>4, <1>5 DEF KillStep

FailureStep ==
  \E p \in Procs :
    \/ Abandon(p)
    \/ AuditRefused(p)
    \/ EngagementFails(p)
    \/ Crash(p)
    \/ Restart(p)
    \/ Reopen(p)

LEMMA FailureType ==
  ASSUME TypeOK, FailureStep
  PROVE  TypeOK'
  <1> USE DEF TypeOK, CallTypeOK, DraftRecord
  <1>1. ASSUME NEW p \in Procs, NEW step \in {"idle", "down"},
               Finish(p, step), UNCHANGED <<database, approvedUnder>>
        PROVE  TypeOK'
    <2>1. CallTypeOK'
      BY <1>1, FinishType DEF Steps
    <2> QED
      BY <1>1, <2>1 DEF database
  <1>2. ASSUME NEW p \in Procs, Restart(p) PROVE TypeOK'
    <2>1. CallTypeOK'
      BY <1>2, FinishType DEF Restart, Steps
    <2> QED
      BY <1>2, <2>1, ReconcileType DEF Restart
  <1>3. ASSUME NEW p \in Procs, Reopen(p) PROVE TypeOK'
    BY <1>3, ReconcileType DEF Reopen
  <1> QED
    BY <1>1, <1>2, <1>3
       DEF FailureStep, Abandon, AuditRefused, EngagementFails, Crash

LEMMA StepCases ==
  ASSUME [Next]_vars
  PROVE  PolicyStep \/ CampaignStep \/ KillStep \/ FailureStep \/ UNCHANGED vars
  BY DEF Next, ReliableNext, FailureStep

LEMMA TypeStep == TypeOK /\ [Next]_vars => TypeOK'
  <1>1. TypeOK /\ UNCHANGED vars => TypeOK'
    BY DEF TypeOK, vars, database
  <1> QED
    BY <1>1, StepCases, PolicyType, CampaignType, KillType, FailureType

-----------------------------------------------------------------------------
(* What a step may do to the rows. An update is the only one that makes a   *)
(* campaign approved or running, and it re-reads everything that allows it. *)
Updated(p, c) ==
  /\ c = draft[p].campaign
  /\ rows[c] # Absent
  /\ rows[c].state \notin OutlivesPolicy => rows[c].version = current
  /\ rows[c].state \in Unsafe => rows[c].version = current
  /\ rows[c].state \notin Ended
  /\ rows[c].revision = read[p]
  /\ rows'[c] = draft[p].row
  /\ \A b \in Campaigns : b # c => rows'[b] = rows[b]
  /\ draft[p].row.state # rows[c].state
  /\ draft[p].row.state = "running_simulation" => rows[c].state = "approved"
  /\ draft[p].row.state \in Unsafe =>
       /\ ~KillActive
       /\ draft[p].row.version = current
       /\ current \in acceptedPolicies
       /\ ApprovalEvidence(c, draft[p].row)

LEMMA UpdateFacts ==
  ASSUME TypeOK, NEW p \in Procs, UpdateCampaign(p)
  PROVE  draft[p].campaign \in Campaigns /\ Updated(p, draft[p].campaign)
  <1> DEFINE c == draft[p].campaign
  <1>1. c \in Campaigns /\ draft[p].row \in Row
    BY DEF TypeOK
  <1>2. /\ rows[c] # Absent
        /\ BindingsHold(c, rows[c])
        /\ rows[c].revision = read[p]
        /\ StoreAllows(rows[c], draft[p].row)
        /\ BindingsHold(c, draft[p].row)
    BY DEF UpdateCampaign, CanUpdate, Readable
  <1>3. rows[c] \in Row \cup {Absent}
    BY <1>1 DEF TypeOK
  <1>4. /\ rows[c].state \notin Ended
        /\ draft[p].row.state = "running_simulation" =>
             rows[c].state = "approved"
        /\ draft[p].row.state # rows[c].state
    BY <1>1, <1>2, <1>3, StoreTable
  <1>5. /\ rows'[c] = draft[p].row
        /\ \A b \in Campaigns : b # c => rows'[b] = rows[b]
    BY <1>1 DEF UpdateCampaign, TypeOK
  <1>6. Unsafe \cap OutlivesPolicy = {}
    BY DEF Unsafe, OutlivesPolicy
  <1> HIDE DEF c
  <1>7. /\ rows[c].state \notin OutlivesPolicy => rows[c].version = current
        /\ rows[c].state \in Unsafe => rows[c].version = current
    BY <1>2, <1>6 DEF BindingsHold
  <1>8. draft[p].row.state \in Unsafe =>
          /\ ~KillActive
          /\ draft[p].row.version = current
          /\ current \in acceptedPolicies
          /\ ApprovalEvidence(c, draft[p].row)
    BY <1>2, <1>6 DEF BindingsHold
  <1> QED
    BY <1>1, <1>2, <1>4, <1>5, <1>7, <1>8 DEF Updated, c

LEMMA InsertFacts ==
  ASSUME Inv, NEW p \in Procs, InsertCampaign(p)
  PROVE  \E c \in Campaigns :
           /\ rows[c] = Absent
           /\ rows'[c].state = "draft" /\ rows'[c].revision = 0
           /\ \A b \in Campaigns : b # c => rows'[b] = rows[b]
  <1> DEFINE c == draft[p].campaign
  <1>1. c \in Campaigns
    BY DEF Inv, TypeOK
  <1>2. draft[p].row.state = "draft" /\ draft[p].row.revision = 0
    BY DEF Inv, DraftInv, InsertCampaign
  <1>3. rows[c] = Absent
    BY DEF InsertCampaign, CanInsert
  <1>4. rows' = [rows EXCEPT ![c] = draft[p].row]
    BY DEF InsertCampaign
  <1> HIDE DEF c
  <1>5. rows'[c] = draft[p].row /\ \A b \in Campaigns : b # c => rows'[b] = rows[b]
    BY <1>1, <1>4 DEF Inv, TypeOK
  <1> QED
    BY <1>1, <1>2, <1>3, <1>5

LEMMA PolicyFacts ==
  ASSUME TypeOK, ActiveCampaignUsesCurrentPolicy,
         NEW p \in Procs, AddPolicyVersion(p)
  PROVE  /\ \A c \in Campaigns : rows'[c].state \notin Unsafe
         /\ \A c \in Campaigns :
              rows'[c] = PausedByPolicyChange(rows[c], current + 1)
  <1>1. current + 1 \in Nat /\ current + 1 # current
    BY DEF TypeOK
  <1>2. rows' = [c \in Campaigns |-> PausedByPolicyChange(rows[c], current + 1)]
    BY DEF AddPolicyVersion, CanAddPolicy
  <1>3. ASSUME NEW c \in Campaigns, rows'[c].state \in Unsafe PROVE FALSE
    <2>1. rows[c] \in Row \cup {Absent}
      BY DEF TypeOK
    <2>2. rows[c].version = current + 1
      BY <1>1, <1>2, <1>3, <2>1, PolicyPause
    <2>3. rows[c].state \notin Unsafe
      BY <1>1, <2>2 DEF ActiveCampaignUsesCurrentPolicy
    <2>4. rows'[c] = rows[c]
      BY <1>1, <1>2, <2>1, <2>3, PolicyPause
    <2> QED
      BY <1>3, <2>3, <2>4
  <1> QED
    BY <1>2, <1>3

(* Every other step leaves the rows alone.                                  *)
RowsStep ==
  \E p \in Procs :
    \/ AddPolicyVersion(p)
    \/ InsertCampaign(p)
    \/ UpdateCampaign(p)
    \/ EngagePause(p)
    \/ ClearKillSwitch(p)
    \/ Restart(p)
    \/ Reopen(p)

LEMMA OtherSteps ==
  ASSUME [Next]_vars, ~RowsStep
  PROVE  UNCHANGED <<rows, current, approvedUnder>>
  <1>1. CASE PolicyStep
    BY <1>1 DEF PolicyStep, RowsStep, AddPolicyRead, PersistPolicyApproval,
       AcceptPolicy, DecidePolicyApproval, database
  <1>2. CASE CampaignStep
    BY <1>2 DEF CampaignStep, RowsStep, InsertCheck, PrepareRebind,
       PrepareTransition, PersistCampaignApproval, DecideCampaignApproval,
       database
  <1>3. CASE KillStep
    BY <1>3 DEF KillStep, RowsStep, Engage, EngageAudit, SignClear, database
  <1>4. CASE FailureStep
    BY <1>4 DEF FailureStep, RowsStep, Abandon, AuditRefused, EngagementFails,
       Crash, database
  <1>5. CASE UNCHANGED vars
    BY <1>5 DEF vars, database
  <1> QED
    BY <1>1, <1>2, <1>3, <1>4, <1>5, StepCases

(* What a step may do to the kill switch.                                   *)
KillRowStep ==
  \E p \in Procs : Engage(p) \/ EngageAudit(p) \/ ClearKillSwitch(p)

LEMMA OtherKill ==
  ASSUME [Next]_vars, ~KillRowStep
  PROVE  UNCHANGED <<kill, clears>>
  <1>1. CASE PolicyStep
    BY <1>1 DEF PolicyStep, AddPolicyRead, AddPolicyVersion,
       PersistPolicyApproval, AcceptPolicy, DecidePolicyApproval, database
  <1>2. CASE CampaignStep
    BY <1>2 DEF CampaignStep, InsertCheck, PrepareRebind, PrepareTransition,
       InsertCampaign, UpdateCampaign, PersistCampaignApproval,
       DecideCampaignApproval, database
  <1>3. CASE KillStep
    BY <1>3 DEF KillStep, KillRowStep, EngagePause, SignClear, database
  <1>4. CASE FailureStep
    BY <1>4 DEF FailureStep, Abandon, AuditRefused, EngagementFails, Crash,
       Restart, Reopen, database
  <1>5. CASE UNCHANGED vars
    BY <1>5 DEF vars, database
  <1> QED
    BY <1>1, <1>2, <1>3, <1>4, <1>5, StepCases

-----------------------------------------------------------------------------
(* What a step may do to the calls: of one process a call begins, goes on   *)
(* or ends, and those of the others stay as they are.                       *)
SameCall(p) ==
  pc'[p] = pc[p] /\ read'[p] = read[p] /\ draft'[p] = draft[p]

LEMMA StartCall ==
  ASSUME TypeOK, NEW p \in Procs, NEW q \in Procs, NEW step, NEW value,
         NEW next, Start(q, step, value, next)
  PROVE  \/ SameCall(p)
         \/ /\ p = q
            /\ pc'[p] = step
            /\ read'[p] = value
            /\ draft'[p] = next
  BY DEF TypeOK, Start, SameCall

LEMMA FinishCall ==
  ASSUME TypeOK, NEW p \in Procs, NEW q \in Procs, NEW step, Finish(q, step)
  PROVE  SameCall(p) \/ pc'[p] = step
  BY DEF TypeOK, Finish, SameCall

CallStep(p) ==
  \/ SameCall(p)
  \/ pc'[p] \in {"idle", "down", "add_policy", "clear"}
  \/ Engage(p) \/ EngagePause(p)
  \/ \E c \in Campaigns : InsertCheck(p, c) \/ PrepareRebind(p, c)
  \/ \E c \in Campaigns, event \in Events, claim \in 0..current,
       d \in Decisions : PrepareTransition(p, c, event, claim, d)

LEMMA CallSteps ==
  ASSUME TypeOK, [Next]_vars, NEW p \in Procs
  PROVE  CallStep(p)
  <1>1. CASE PolicyStep
    <2>1. ASSUME NEW q \in Procs, AddPolicyRead(q) PROVE CallStep(p)
      BY <2>1, StartCall DEF AddPolicyRead, CallStep
    <2>2. ASSUME NEW q \in Procs, AddPolicyVersion(q) PROVE CallStep(p)
      BY <2>2, FinishCall DEF AddPolicyVersion, CallStep
    <2>3. ASSUME NEW v \in Versions,
                 \/ PersistPolicyApproval(v)
                 \/ AcceptPolicy(v)
                 \/ \E decision \in {"accepted", "rejected"} :
                      DecidePolicyApproval(v, decision)
          PROVE  CallStep(p)
      BY <2>3 DEF PersistPolicyApproval, AcceptPolicy, DecidePolicyApproval,
         CallStep, SameCall
    <2> QED
      BY <1>1, <2>1, <2>2, <2>3 DEF PolicyStep
  <1>2. CASE CampaignStep
    <2>1. ASSUME NEW q \in Procs, NEW c \in Campaigns,
                 InsertCheck(q, c) \/ PrepareRebind(q, c)
          PROVE  CallStep(p)
      BY <2>1, StartCall DEF InsertCheck, PrepareRebind, CallStep
    <2>2. ASSUME NEW q \in Procs, NEW c \in Campaigns, NEW event \in Events,
                 NEW claim \in 0..current, NEW d \in Decisions,
                 PrepareTransition(q, c, event, claim, d)
          PROVE  CallStep(p)
      BY <2>2, StartCall DEF PrepareTransition, CallStep
    <2>3. ASSUME NEW q \in Procs, InsertCampaign(q) \/ UpdateCampaign(q)
          PROVE  CallStep(p)
      BY <2>3, FinishCall DEF InsertCampaign, UpdateCampaign, CallStep
    <2>4. ASSUME NEW d \in Decisions,
                 \/ \E c \in Campaigns : PersistCampaignApproval(d, c)
                 \/ \E decision \in {"accepted", "rejected"} :
                      DecideCampaignApproval(d, decision)
          PROVE  CallStep(p)
      BY <2>4 DEF PersistCampaignApproval, DecideCampaignApproval,
         CallStep, SameCall
    <2> QED
      BY <1>2, <2>1, <2>2, <2>3, <2>4 DEF CampaignStep
  <1>3. CASE KillStep
    <2>1. ASSUME NEW q \in Procs, Engage(q) PROVE CallStep(p)
      BY <2>1, StartCall DEF Engage, CallStep
    <2>2. ASSUME NEW q \in Procs, EngagePause(q) PROVE CallStep(p)
      BY <2>2 DEF EngagePause, CallStep, SameCall, TypeOK
    <2>3. ASSUME NEW q \in Procs, EngageAudit(q) \/ ClearKillSwitch(q)
          PROVE  CallStep(p)
      BY <2>3, FinishCall DEF EngageAudit, ClearKillSwitch, CallStep
    <2>4. ASSUME NEW q \in Procs, SignClear(q) PROVE CallStep(p)
      BY <2>4, StartCall DEF SignClear, CallStep
    <2> QED
      BY <1>3, <2>1, <2>2, <2>3, <2>4 DEF KillStep
  <1>4. CASE FailureStep
    <2>1. ASSUME NEW q \in Procs, NEW step \in {"idle", "down"},
                 Finish(q, step)
          PROVE  CallStep(p)
      BY <2>1, FinishCall DEF CallStep
    <2>2. ASSUME NEW q \in Procs, Reopen(q) PROVE CallStep(p)
      BY <2>2 DEF Reopen, CallStep, SameCall
    <2> QED
      BY <1>4, <2>1, <2>2 DEF FailureStep, Abandon, AuditRefused,
         EngagementFails, Crash, Restart
  <1>5. CASE UNCHANGED vars
    BY <1>5 DEF vars, CallStep, SameCall
  <1> QED
    BY <1>1, <1>2, <1>3, <1>4, <1>5, StepCases

LEMMA DraftStep == Inv /\ [Next]_vars => DraftInv'
  <1> SUFFICES ASSUME Inv, [Next]_vars, NEW p \in Procs
               PROVE  /\ pc'[p] = "insert" =>
                           /\ draft'[p].row.state = "draft"
                           /\ draft'[p].row.revision = 0
                      /\ pc'[p] = "update" =>
                           draft'[p].row.revision = read'[p] + 1
    BY DEF DraftInv
  <1>t. TypeOK
    BY DEF Inv
  <1>1. CASE SameCall(p)
    BY <1>1 DEF SameCall, Inv, DraftInv
  <1>2. CASE pc'[p] \in {"idle", "down", "add_policy", "clear"}
    BY <1>2
  <1>3. CASE Engage(p) \/ EngagePause(p)
    <2>1. pc'[p] \in {"pause", "audit"}
      BY <1>t, <1>3 DEF Engage, EngagePause, Start, TypeOK
    <2> QED
      BY <2>1
  <1>4. ASSUME NEW c \in Campaigns, InsertCheck(p, c)
        PROVE  /\ pc'[p] = "insert"
               /\ draft'[p].row.state = "draft"
               /\ draft'[p].row.revision = 0
    <2>1. pc'[p] = "insert" /\ draft'[p].row = NewDraft(current)
      BY <1>t, <1>4 DEF InsertCheck, Start, TypeOK
    <2> QED
      BY <1>t, <2>1, NewDraftType DEF TypeOK
  <1>5. ASSUME NEW c \in Campaigns, PrepareRebind(p, c)
        PROVE  pc'[p] = "update" /\ draft'[p].row.revision = read'[p] + 1
    <2>1. rows[c] \in Row
      BY <1>t, <1>5 DEF PrepareRebind, Readable, TypeOK
    <2>2. /\ pc'[p] = "update"
          /\ draft'[p].row = RebindCampaign(rows[c], current)
          /\ read'[p] = rows[c].revision
      BY <1>t, <1>5 DEF PrepareRebind, Start, TypeOK
    <2> QED
      BY <1>t, <2>1, <2>2, RebindType DEF TypeOK
  <1>6. ASSUME NEW c \in Campaigns, NEW event \in Events,
               NEW claim \in 0..current, NEW d \in Decisions,
               PrepareTransition(p, c, event, claim, d)
        PROVE  pc'[p] = "update" /\ draft'[p].row.revision = read'[p] + 1
    <2> DEFINE next == TransitionCampaign(rows[c], event, ContextOf(claim), d)
    <2>1. rows[c] \in Row
      BY <1>t, <1>6 DEF PrepareTransition, Readable, TypeOK
    <2>2. next.revision = rows[c].revision + 1
      BY <2>1, TransitionType
    <2>3. Start(p, "update", rows[c].revision, [campaign |-> c, row |-> next])
      BY <1>6 DEF PrepareTransition
    <2> HIDE DEF next
    <2>4. /\ pc'[p] = "update"
          /\ draft'[p].row = next
          /\ read'[p] = rows[c].revision
      BY <1>t, <2>3 DEF Start, TypeOK
    <2> QED
      BY <2>2, <2>4
  <1> QED
    BY <1>t, <1>1, <1>2, <1>3, <1>4, <1>5, <1>6, CallSteps DEF CallStep

-----------------------------------------------------------------------------
(* Where a campaign comes from that is approved or running after a step.    *)
LEMMA UnsafeRows ==
  ASSUME Inv, [Next]_vars, NEW c \in Campaigns, rows'[c].state \in Unsafe
  PROVE  \/ /\ rows'[c] = rows[c]
            /\ current' = current
            /\ approvedUnder'[c] = approvedUnder[c]
         \/ \E p \in Procs : UpdateCampaign(p) /\ c = draft[p].campaign
  <1> DEFINE Kept == /\ rows'[c] = rows[c]
                     /\ current' = current
                     /\ approvedUnder'[c] = approvedUnder[c]
  <1>t. TypeOK /\ rows[c] \in Row \cup {Absent}
    BY DEF Inv, TypeOK
  <1>1. ASSUME NEW p \in Procs, AddPolicyVersion(p) PROVE FALSE
    BY <1>1, PolicyFacts DEF Inv
  <1>2. ASSUME NEW p \in Procs, InsertCampaign(p) PROVE Kept
    <2>1. rows'[c] = rows[c]
      BY <1>2, InsertFacts DEF Unsafe
    <2> QED
      BY <1>2, <2>1 DEF InsertCampaign
  <1>3. ASSUME NEW p \in Procs, UpdateCampaign(p), c # draft[p].campaign
        PROVE  Kept
    <2>1. rows'[c] = rows[c]
      BY <1>t, <1>3, UpdateFacts DEF Updated
    <2>2. approvedUnder'[c] = approvedUnder[c]
      BY <1>t, <1>3 DEF UpdateCampaign, TypeOK
    <2> QED
      BY <1>3, <2>1, <2>2 DEF UpdateCampaign
  <1>4. ASSUME NEW p \in Procs, EngagePause(p) \/ ClearKillSwitch(p)
        PROVE  FALSE
    BY <1>t, <1>4, PauseType DEF EngagePause, ClearKillSwitch
  <1>5. ASSUME NEW p \in Procs, Restart(p) \/ Reopen(p) PROVE Kept
    <2>1. rows' = rows
      BY <1>t, <1>5, ReconcileType, PauseType DEF Restart, Reopen
    <2> QED
      BY <1>5, <2>1 DEF Restart, Reopen
  <1>6. CASE ~RowsStep
    BY <1>6, OtherSteps
  <1> QED
    BY <1>1, <1>2, <1>3, <1>4, <1>5, <1>6 DEF RowsStep

(* The evidence an approved campaign rests on is never taken back.          *)
LEMMA EvidenceStays ==
  ASSUME TypeOK, [Next]_vars
  PROVE  /\ acceptedPolicies \subseteq acceptedPolicies'
         /\ \A d \in Decisions : approvals[d].status = "accepted" =>
              approvals'[d] = approvals[d]
  <1>1. CASE PolicyStep
    BY <1>1 DEF PolicyStep, AddPolicyRead, AddPolicyVersion,
       PersistPolicyApproval, AcceptPolicy, DecidePolicyApproval, database
  <1>2. CASE CampaignStep
    <2>1. ASSUME NEW d \in Decisions, NEW c \in Campaigns,
                 PersistCampaignApproval(d, c)
          PROVE  /\ acceptedPolicies' = acceptedPolicies
                 /\ \A e \in Decisions : approvals[e].status = "accepted" =>
                      approvals'[e] = approvals[e]
      BY <2>1 DEF PersistCampaignApproval, NoApprovalRow, TypeOK
    <2>2. ASSUME NEW d \in Decisions, NEW decision,
                 DecideCampaignApproval(d, decision)
          PROVE  /\ acceptedPolicies' = acceptedPolicies
                 /\ \A e \in Decisions : approvals[e].status = "accepted" =>
                      approvals'[e] = approvals[e]
      BY <2>2 DEF DecideCampaignApproval, TypeOK
    <2> QED
      BY <1>2, <2>1, <2>2 DEF CampaignStep, InsertCheck, PrepareRebind,
         PrepareTransition, InsertCampaign, UpdateCampaign, database
  <1>3. CASE KillStep
    BY <1>3 DEF KillStep, Engage, EngagePause, EngageAudit, SignClear,
       ClearKillSwitch, database
  <1>4. CASE FailureStep
    BY <1>4 DEF FailureStep, Abandon, AuditRefused, EngagementFails, Crash,
       Restart, Reopen, database
  <1>5. CASE UNCHANGED vars
    BY <1>5 DEF vars, database
  <1> QED
    BY <1>1, <1>2, <1>3, <1>4, <1>5, StepCases

LEMMA ActiveStep == Inv /\ [Next]_vars => ActiveCampaignUsesCurrentPolicy'
  <1> SUFFICES ASSUME Inv, [Next]_vars,
                      NEW c \in Campaigns, rows'[c].state \in Unsafe
               PROVE  /\ rows'[c].version = current'
                      /\ current' \in acceptedPolicies'
                      /\ ApprovalEvidence(c, rows[c])'
    BY DEF ActiveCampaignUsesCurrentPolicy
  <1>t. TypeOK
    BY DEF Inv
  <1>1. ASSUME NEW row, ApprovalEvidence(c, row), rows'[c] = row
        PROVE  ApprovalEvidence(c, rows[c])'
    BY <1>t, <1>1, EvidenceStays DEF ApprovalEvidence
  <1>2. CASE rows'[c] = rows[c] /\ current' = current
    BY <1>t, <1>1, <1>2, EvidenceStays
       DEF Inv, ActiveCampaignUsesCurrentPolicy
  <1>3. ASSUME NEW p \in Procs, UpdateCampaign(p), c = draft[p].campaign
        PROVE  /\ rows'[c].version = current'
               /\ current' \in acceptedPolicies'
               /\ ApprovalEvidence(c, rows[c])'
    <2>1. Updated(p, c) /\ current' = current
      BY <1>t, <1>3, UpdateFacts DEF UpdateCampaign
    <2> QED
      BY <1>t, <1>1, <2>1, EvidenceStays DEF Updated
  <1> QED
    BY <1>2, <1>3, UnsafeRows

-----------------------------------------------------------------------------
(* The switch: it reads as clear only when a signed clear put it there, and *)
(* its revision never goes back.                                            *)
LEMMA KillFacts ==
  ASSUME TypeOK, [Next]_vars
  PROVE  /\ kill'.revision >= kill.revision
         /\ \/ UNCHANGED <<kill, clears>>
            \/ /\ kill'.value = "engaged" /\ ~kill'.audited
               /\ kill'.revision = kill.revision + 1 /\ clears' = clears
               /\ UNCHANGED rows
            \/ \E p \in Procs :
                 /\ EngageAudit(p)
                 /\ kill.value = "engaged" /\ kill'.value = "engaged"
                 /\ kill'.revision = kill.revision /\ clears' = clears
                 /\ UNCHANGED rows
            \/ \E p \in Procs :
                 /\ ClearKillSwitch(p)
                 /\ kill.value = "engaged" /\ kill'.value = "clear"
                 /\ kill'.revision = kill.revision + 1
                 /\ clears' = clears \cup {kill.revision}
  <1>0. kill.revision \in Nat
    BY DEF TypeOK
  <1>1. ASSUME NEW p \in Procs, Engage(p)
        PROVE  /\ kill'.value = "engaged" /\ ~kill'.audited
               /\ kill'.revision = kill.revision + 1 /\ clears' = clears
               /\ UNCHANGED rows
    BY <1>1 DEF Engage
  <1>2. ASSUME NEW p \in Procs, EngageAudit(p)
        PROVE  /\ kill.value = "engaged" /\ kill'.value = "engaged"
               /\ kill'.revision = kill.revision /\ clears' = clears
               /\ UNCHANGED rows
    BY <1>2 DEF EngageAudit, CanAudit, TypeOK
  <1>3. ASSUME NEW p \in Procs, ClearKillSwitch(p)
        PROVE  /\ kill.value = "engaged" /\ kill'.value = "clear"
               /\ kill'.revision = kill.revision + 1
               /\ clears' = clears \cup {kill.revision}
    BY <1>3 DEF ClearKillSwitch, CanClear
  <1>4. CASE ~KillRowStep
    BY <1>0, <1>4, OtherKill
  <1> QED
    BY <1>0, <1>1, <1>2, <1>3, <1>4 DEF KillRowStep

LEMMA ClearsStep == Inv /\ [Next]_vars => ClearsInv'
  <1> SUFFICES ASSUME Inv, [Next]_vars, NEW n \in clears'
               PROVE  n < kill'.revision
    BY DEF ClearsInv
  <1>1. TypeOK /\ kill.revision \in Nat /\ kill'.revision \in Nat
    BY TypeStep DEF Inv, TypeOK
  <1>2. clears \subseteq Nat /\ \A m \in clears : m < kill.revision
    BY DEF Inv, TypeOK, ClearsInv
  <1>3. kill'.revision >= kill.revision
    BY <1>1, KillFacts
  <1>4. CASE n \in clears
    BY <1>1, <1>2, <1>3, <1>4
  <1>5. CASE n \notin clears
    <2>1. n = kill.revision /\ kill'.revision = kill.revision + 1
      BY <1>1, <1>5, KillFacts
    <2> QED
      BY <1>1, <2>1
  <1> QED
    BY <1>4, <1>5

(* While the switch is engaged no campaign becomes approved or running.     *)
LEMMA NoneBecomesUnsafe ==
  ASSUME Inv, [Next]_vars, KillActive, NEW c \in Campaigns,
         rows[c].state \notin Unsafe
  PROVE  rows'[c].state \notin Unsafe
  <1> SUFFICES ASSUME rows'[c].state \in Unsafe PROVE FALSE
    OBVIOUS
  <1>1. PICK p \in Procs : UpdateCampaign(p) /\ c = draft[p].campaign
    BY UnsafeRows
  <1>2. Updated(p, c)
    BY <1>1, UpdateFacts DEF Inv
  <1> QED
    BY <1>2 DEF Updated

LEMMA EngagementStep == Inv /\ [Next]_vars => EngagementInv'
  <1> SUFFICES ASSUME Inv, [Next]_vars, NEW p \in Procs,
                      pc'[p] \in {"pause", "audit"}
               PROVE  /\ read'[p] <= kill'.revision
                      /\ pc'[p] = "audit" /\ kill'.value = "engaged"
                         /\ kill'.revision = read'[p] =>
                           \A c \in Campaigns : rows'[c].state \notin Unsafe
    BY DEF EngagementInv
  <1>t. /\ TypeOK /\ kill.revision \in Nat /\ kill'.revision \in Nat
        /\ read[p] \in Nat
    BY TypeStep DEF Inv, TypeOK
  <1>1. CASE SameCall(p)
    <2>1. /\ pc[p] = pc'[p] /\ read'[p] = read[p]
          /\ read[p] <= kill.revision
      BY <1>1 DEF SameCall, Inv, EngagementInv
    <2>2. read'[p] <= kill'.revision
      BY <1>t, <2>1, KillFacts
    <2>3. ASSUME pc'[p] = "audit", kill'.value = "engaged",
                 kill'.revision = read'[p], NEW c \in Campaigns
          PROVE  rows'[c].state \notin Unsafe
      <3>1. kill'.revision # kill.revision + 1
        BY <1>t, <2>1, <2>3
      <3>2. kill.value = "engaged" /\ kill.revision = read[p]
        BY <1>t, <2>1, <2>3, <3>1, KillFacts
      <3>3. rows[c].state \notin Unsafe
        BY <2>1, <2>3, <3>2 DEF Inv, EngagementInv
      <3> QED
        BY <3>2, <3>3, NoneBecomesUnsafe DEF KillActive
    <2> QED
      BY <2>2, <2>3
  <1>2. CASE Engage(p)
    <2>1. pc'[p] = "pause" /\ read'[p] = kill.revision + 1
      BY <1>t, <1>2 DEF Engage, Start, TypeOK
    <2>2. kill'.revision = kill.revision + 1
      BY <1>2 DEF Engage
    <2> QED
      BY <1>t, <2>1, <2>2
  <1>3. CASE EngagePause(p)
    <2>1. read' = read /\ kill' = kill /\ PauseUnsafe /\ pc[p] = "pause"
      BY <1>3 DEF EngagePause
    <2>2. read[p] <= kill.revision
      BY <2>1 DEF Inv, EngagementInv
    <2> QED
      BY <1>t, <2>1, <2>2, PauseType
  <1>4. ASSUME NEW c \in Campaigns, InsertCheck(p, c) \/ PrepareRebind(p, c)
        PROVE  FALSE
    <2>1. pc'[p] \in {"insert", "update"}
      BY <1>t, <1>4 DEF InsertCheck, PrepareRebind, Start, TypeOK
    <2> QED
      BY <2>1
  <1>5. ASSUME NEW c \in Campaigns, NEW event \in Events,
               NEW claim \in 0..current, NEW d \in Decisions,
               PrepareTransition(p, c, event, claim, d)
        PROVE  FALSE
    <2>1. pc'[p] = "update"
      BY <1>t, <1>5 DEF PrepareTransition, Start, TypeOK
    <2> QED
      BY <2>1
  <1> QED
    BY <1>t, <1>1, <1>2, <1>3, <1>4, <1>5, CallSteps DEF CallStep

LEMMA SurviveStep == Inv /\ [Next]_vars => NoCampaignSurvivesAClear'
  <1> SUFFICES ASSUME Inv, [Next]_vars, ~KillActive',
                      NEW c \in Campaigns, rows'[c].state \in Unsafe
               PROVE  approvedUnder'[c] = kill'.revision
    BY DEF NoCampaignSurvivesAClear
  <1>t. TypeOK
    BY DEF Inv
  <1>1. kill'.value = "clear"
    BY DEF KillActive
  <1>2. \A p \in Procs : ~ClearKillSwitch(p)
    BY <1>t, PauseType DEF ClearKillSwitch
  <1>3. UNCHANGED <<kill, clears>>
    BY <1>t, <1>1, <1>2, KillFacts
  <1>4. ~KillActive
    BY <1>3 DEF KillActive
  <1>5. rows[c].state \in Unsafe => approvedUnder[c] = kill.revision
    BY <1>4 DEF Inv, NoCampaignSurvivesAClear
  <1>6. ASSUME NEW p \in Procs, UpdateCampaign(p), c = draft[p].campaign
        PROVE  approvedUnder'[c] = kill.revision
    <2>1. /\ rows'[c] = draft[p].row
          /\ draft[p].row.state = "running_simulation" =>
               rows[c].state = "approved"
      BY <1>t, <1>6, UpdateFacts DEF Updated
    <2>2. approvedUnder'[c] = IF draft[p].row.state = "approved"
                              THEN kill.revision ELSE approvedUnder[c]
      BY <1>t, <1>6 DEF UpdateCampaign, TypeOK
    <2> QED
      BY <1>5, <2>1, <2>2 DEF Unsafe
  <1> QED
    BY <1>3, <1>5, <1>6, UnsafeRows

LEMMA AuditedStep == Inv /\ [Next]_vars => AuditedEngagementIsPaused'
  <1> SUFFICES ASSUME Inv, [Next]_vars, kill'.value = "engaged",
                      kill'.audited, NEW c \in Campaigns
               PROVE  rows'[c].state \notin Unsafe
    BY DEF AuditedEngagementIsPaused
  <1>t. TypeOK
    BY DEF Inv
  <1>1. CASE UNCHANGED <<kill, clears>>
    BY <1>1, NoneBecomesUnsafe DEF Inv, AuditedEngagementIsPaused, KillActive
  <1>2. ASSUME NEW p \in Procs, EngageAudit(p)
        PROVE  rows'[c].state \notin Unsafe
    BY <1>2 DEF EngageAudit, CanAudit, Inv, EngagementInv
  <1> QED
    BY <1>t, <1>1, <1>2, KillFacts

LEMMA StepInv == Inv /\ [Next]_vars => Inv'
  BY TypeStep, DraftStep, ClearsStep, EngagementStep, ActiveStep, SurviveStep,
     AuditedStep DEF Inv

LEMMA InvariantHolds == Spec => []Inv
  BY InitInv, StepInv, PTL DEF Spec

-----------------------------------------------------------------------------
(* The state of the database and of every call is well typed.               *)
THEOREM TypeCorrect == Spec => []TypeOK
  <1>1. Inv => TypeOK
    BY DEF Inv
  <1> QED
    BY <1>1, InvariantHolds, PTL

(* An approved or running campaign rests on the current, accepted policy    *)
(* and on a human decision (assertCampaignPersistenceBindings).             *)
THEOREM ActiveCampaignsAreCurrent == Spec => []ActiveCampaignUsesCurrentPolicy
  <1>1. Inv => ActiveCampaignUsesCurrentPolicy
    BY DEF Inv
  <1> QED
    BY <1>1, InvariantHolds, PTL

(* No campaign is carried over from before a clear of the kill switch,      *)
(* whatever engagements crashed on the way (clearKillSwitch).               *)
THEOREM ClearsStartAfresh == Spec => []NoCampaignSurvivesAClear
  <1>1. Inv => NoCampaignSurvivesAClear
    BY DEF Inv
  <1> QED
    BY <1>1, InvariantHolds, PTL

(* An engagement whose audit record is linked has paused every campaign     *)
(* (setKillSwitch), although its three commits are apart.                   *)
THEOREM AuditsAreHonest == Spec => []AuditedEngagementIsPaused
  <1>1. Inv => AuditedEngagementIsPaused
    BY DEF Inv
  <1> QED
    BY <1>1, InvariantHolds, PTL

(* A signed clear takes effect once (clearKillSwitch).                      *)
THEOREM ClearsAreUsedOnce == Spec => []SignedClearIsUsedOnce
  <1>1. Inv => SignedClearIsUsedOnce
    <2> SUFFICES ASSUME Inv, NEW p \in Procs, read[p] \in clears, CanClear(p)
                 PROVE  FALSE
      BY DEF SignedClearIsUsedOnce
    <2>1. kill.revision \in clears /\ kill.revision \in Nat
      BY DEF CanClear, Inv, TypeOK
    <2> QED
      BY <2>1 DEF Inv, ClearsInv
  <1> QED
    BY <1>1, InvariantHolds, PTL

-----------------------------------------------------------------------------
(* How a step changes the row of one campaign.                              *)
Inserted(c) ==
  rows[c] = Absent /\ rows'[c].state = "draft" /\ rows'[c].revision = 0

Paused(c) ==
  /\ rows[c].state \in Unsafe
  /\ rows'[c].state \notin Unsafe
  /\ rows'[c].revision = rows[c].revision + 1

RowStep(c) ==
  \/ rows'[c] = rows[c]
  \/ Inserted(c)
  \/ Paused(c)
  \/ \E p \in Procs : UpdateCampaign(p) /\ Updated(p, c)

LEMMA RowSteps ==
  ASSUME Inv, [Next]_vars, NEW c \in Campaigns
  PROVE  RowStep(c)
  <1>t. TypeOK /\ rows[c] \in Row \cup {Absent}
    BY DEF Inv, TypeOK
  <1>1. ASSUME PauseUnsafe PROVE RowStep(c)
    <2>1. rows'[c] = PausedByKillSwitch(rows[c])
      BY <1>t, <1>1, PauseType
    <2> QED
      BY <1>t, <2>1, KillPause DEF RowStep, Paused
  <1>2. ASSUME NEW p \in Procs, AddPolicyVersion(p) PROVE RowStep(c)
    <2>1. /\ rows'[c].state \notin Unsafe
          /\ rows'[c] = PausedByPolicyChange(rows[c], current + 1)
      BY <1>2, PolicyFacts DEF Inv
    <2>2. current + 1 \in Nat
      BY <1>t DEF TypeOK
    <2> QED
      BY <1>t, <2>1, <2>2, PolicyPause DEF RowStep, Paused
  <1>3. ASSUME NEW p \in Procs, InsertCampaign(p) PROVE RowStep(c)
    BY <1>3, InsertFacts DEF RowStep, Inserted
  <1>4. ASSUME NEW p \in Procs, UpdateCampaign(p) PROVE RowStep(c)
    BY <1>t, <1>4, UpdateFacts DEF RowStep, Updated
  <1>5. ASSUME NEW p \in Procs, EngagePause(p) \/ ClearKillSwitch(p)
        PROVE  RowStep(c)
    BY <1>1, <1>5 DEF EngagePause, ClearKillSwitch
  <1>6. ASSUME NEW p \in Procs, Restart(p) \/ Reopen(p) PROVE RowStep(c)
    <2>1. rows' = rows \/ PauseUnsafe
      BY <1>t, <1>6, ReconcileType DEF Restart, Reopen
    <2> QED
      BY <1>1, <2>1 DEF RowStep
  <1>7. CASE ~RowsStep
    BY <1>7, OtherSteps DEF RowStep
  <1> QED
    BY <1>2, <1>3, <1>4, <1>5, <1>6, <1>7 DEF RowsStep

LEMMA UpdatedRevision ==
  ASSUME Inv, NEW p \in Procs, NEW c, UpdateCampaign(p), Updated(p, c)
  PROVE  rows'[c].revision = rows[c].revision + 1
  BY DEF Inv, DraftInv, Updated, UpdateCampaign

(* A stored campaign moves by one revision at a time and never after its    *)
(* end: no update is lost, none is applied to a row it was not computed     *)
(* from (updateCampaign).                                                   *)
THEOREM UpdatesAreKept == Spec => NoLostUpdate
  <1>1. Inv /\ [Next]_vars => RevisionStep
    <2> SUFFICES ASSUME Inv, [Next]_vars, NEW c \in Campaigns,
                        rows[c] # Absent, rows'[c] # rows[c]
                 PROVE  /\ rows'[c].revision = rows[c].revision + 1
                        /\ rows[c].state \notin Ended
      BY DEF RevisionStep
    <2>1. CASE Paused(c)
      BY <2>1 DEF Paused, Unsafe, Ended
    <2>2. ASSUME NEW p \in Procs, UpdateCampaign(p), Updated(p, c)
          PROVE  /\ rows'[c].revision = rows[c].revision + 1
                 /\ rows[c].state \notin Ended
      BY <2>2, UpdatedRevision DEF Updated
    <2> QED
      BY <2>1, <2>2, RowSteps DEF RowStep, Inserted
  <1> QED
    BY <1>1, InvariantHolds, PTL DEF Spec, NoLostUpdate

(* A campaign that still waits for an acceptance or an approval of a policy *)
(* that has been superseded is never touched again (getCampaign).           *)
THEOREM StaleCampaignsAreFrozen == Spec => StaleOpenCampaignFrozen
  <1>1. Inv /\ [Next]_vars => FrozenStep
    <2> SUFFICES ASSUME Inv, [Next]_vars, NEW c \in Campaigns,
                        StaleOpenCampaign(c)
                 PROVE  rows'[c] = rows[c]
      BY DEF FrozenStep
    <2>1. rows[c].state \notin Unsafe
      BY DEF StaleOpenCampaign, Inv, ActiveCampaignUsesCurrentPolicy
    <2>2. \A p \in Procs : ~Updated(p, c)
      BY DEF StaleOpenCampaign, Updated
    <2> QED
      BY <2>1, <2>2, RowSteps
         DEF RowStep, Inserted, Paused, StaleOpenCampaign
  <1> QED
    BY <1>1, InvariantHolds, PTL DEF Spec, StaleOpenCampaignFrozen

-----------------------------------------------------------------------------
(* The refinement: what a step does to the row of one campaign, combined    *)
(* with what it does to the switch.                                         *)
LEMMA UpdateEvidence ==
  ASSUME Inv, NEW p \in Procs, NEW c \in Campaigns, UpdateCampaign(p),
         Updated(p, c)
  PROVE  Evidence(c)!EvidenceNext
  <1> USE DEF Evidence!evidence, Live
  <1>1. rows'[c].revision = rows[c].revision + 1
    BY UpdatedRevision
  <1>2. KillActive' = KillActive
    BY DEF UpdateCampaign, KillActive
  <1>3. /\ rows'[c].state = "running_simulation" =>
             ~KillActive /\ rows[c].state = "approved"
        /\ rows[c].state = "running_simulation" =>
             rows'[c].state # "running_simulation"
    BY DEF Updated, Unsafe
  <1>4. CASE rows[c].state = "running_simulation"
    <2>1. Evidence(c)!Interrupt
      BY <1>1, <1>2, <1>3, <1>4 DEF Evidence!Interrupt
    <2> QED
      BY <2>1 DEF Evidence!EvidenceNext
  <1>5. CASE rows'[c].state = "running_simulation"
    <2>1. Evidence(c)!GoLive
      BY <1>1, <1>2, <1>3, <1>5 DEF Evidence!GoLive
    <2> QED
      BY <2>1 DEF Evidence!EvidenceNext
  <1>6. CASE /\ rows[c].state # "running_simulation"
             /\ rows'[c].state # "running_simulation"
    <2>1. Evidence(c)!Bump
      BY <1>1, <1>2, <1>6 DEF Evidence!Bump
    <2> QED
      BY <2>1 DEF Evidence!EvidenceNext
  <1> QED
    BY <1>4, <1>5, <1>6

LEMMA PauseEvidence ==
  ASSUME NEW c \in Campaigns, Paused(c), KillActive' = KillActive
  PROVE  Evidence(c)!EvidenceNext
  <1>1. Live(c)' = FALSE /\ rows'[c].revision = rows[c].revision + 1
    BY DEF Paused, Live, Unsafe
  <1>2. CASE Live(c)
    <2>1. Evidence(c)!Interrupt
      BY <1>1, <1>2 DEF Evidence!Interrupt
    <2> QED
      BY <2>1 DEF Evidence!EvidenceNext
  <1>3. CASE ~Live(c)
    <2>1. Evidence(c)!Bump
      BY <1>1, <1>3 DEF Evidence!Bump, Live
    <2> QED
      BY <2>1 DEF Evidence!EvidenceNext
  <1> QED
    BY <1>2, <1>3

LEMMA ClearEvidence ==
  ASSUME Inv, NEW c \in Campaigns, NEW p \in Procs, ClearKillSwitch(p)
  PROVE  Evidence(c)!EvidenceNext
  <1>1. KillActive
    BY DEF ClearKillSwitch, CanClear, KillActive
  <1>2. KillActive' = FALSE
    <2>1. /\ kill'.value = "clear" /\ kill'.audited
          /\ kill'.revision = kill.revision + 1
          /\ kill.revision \in clears'
      BY DEF ClearKillSwitch, CanClear
    <2>2. kill'.revision - 1 = kill.revision
      BY <2>1 DEF Inv, TypeOK
    <2> QED
      BY <2>1, <2>2 DEF KillActive
  <1>3. rows[c] \in Row \cup {Absent} /\ rows'[c] = PausedByKillSwitch(rows[c])
    BY PauseType DEF ClearKillSwitch, Inv, TypeOK
  <1>4. /\ rows'[c].state \notin Unsafe
        /\ rows[c].state \notin Unsafe => rows'[c] = rows[c]
        /\ rows[c].state \in Unsafe =>
             rows'[c].revision = rows[c].revision + 1
    BY <1>3, KillPause
  <1>5. Live(c)' = FALSE
    BY <1>4 DEF Live, Unsafe
  <1>6. /\ rows'[c].revision \in {rows[c].revision, rows[c].revision + 1}
        /\ Live(c) => rows'[c].revision = rows[c].revision + 1
    BY <1>4 DEF Live, Unsafe
  <1>7. Evidence(c)!ClearKill
    BY <1>1, <1>2, <1>5, <1>6 DEF Evidence!ClearKill
  <1> QED
    BY <1>7 DEF Evidence!EvidenceNext

LEMMA RefinementStep == Inv /\ [Next]_vars => EvidenceStep
  <1> SUFFICES ASSUME Inv, [Next]_vars, NEW c \in Campaigns
               PROVE  \/ Evidence(c)!EvidenceNext
                      \/ UNCHANGED Evidence(c)!evidence
    BY DEF EvidenceStep
  <1>1. CASE UNCHANGED <<kill, clears>>
    <2>1. KillActive' = KillActive
      BY <1>1 DEF KillActive
    <2>2. CASE rows'[c] = rows[c]
      BY <2>1, <2>2 DEF Evidence!evidence, Live
    <2>3. CASE Inserted(c)
      <3>1. /\ Live(c) = FALSE /\ Live(c)' = FALSE
            /\ rows'[c].revision = rows[c].revision
        BY <2>3 DEF Inserted, Absent, Live
      <3> QED
        BY <2>1, <3>1 DEF Evidence!evidence
    <2>4. CASE Paused(c)
      BY <2>1, <2>4, PauseEvidence
    <2>5. ASSUME NEW p \in Procs, UpdateCampaign(p), Updated(p, c)
          PROVE  Evidence(c)!EvidenceNext
      BY <2>5, UpdateEvidence
    <2> QED
      BY <2>2, <2>3, <2>4, <2>5, RowSteps DEF RowStep
  <1>2. CASE kill'.value = "engaged" /\ UNCHANGED rows
    <2>1. KillActive' = TRUE
      BY <1>2 DEF KillActive
    <2>2. Evidence(c)!EngageKill
      BY <1>2, <2>1 DEF Evidence!EngageKill, Live
    <2> QED
      BY <2>2 DEF Evidence!EvidenceNext
  <1>3. ASSUME NEW p \in Procs, ClearKillSwitch(p)
        PROVE  Evidence(c)!EvidenceNext
    BY <1>3, ClearEvidence
  <1> QED
    BY <1>1, <1>2, <1>3, KillFacts DEF Inv

(* Each campaign, with the switch, behaves as CampaignEvidence says: what   *)
(* the pipeline's proofs assume of the control plane is what it does.       *)
THEOREM Refinement == Spec => ImplementsCampaignEvidence
  <1>1. Init => \A c \in Campaigns : Evidence(c)!EvidenceInit
    <2> SUFFICES ASSUME Init, NEW c \in Campaigns
                 PROVE  Evidence(c)!EvidenceInit
      OBVIOUS
    <2>1. KillActive = TRUE
      BY DEF Init, KillActive
    <2>2. Live(c) = FALSE /\ rows[c].revision = 0
      BY DEF Init, Live, Absent
    <2> QED
      BY <2>1, <2>2 DEF Evidence!EvidenceInit
  <1>2. Inv /\ [Next]_vars => [EvidenceStep]_vars
    BY RefinementStep
  <1> QED
    BY <1>1, <1>2, InvariantHolds, PTL DEF Spec, ImplementsCampaignEvidence
=============================================================================
