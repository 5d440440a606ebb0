----------------------------- MODULE SimulationRun -----------------------------
(***************************************************************************)
(* The simulation of packages/simulation/orchestrator.ts: the dashboard     *)
(* process clears the kill switch and leads one campaign through two policy *)
(* versions, awaiting event keys, mock accounts, the ownership ledger and   *)
(* encrypted events on the way. One transaction, demo call or awaited call  *)
(* is one action. Between any two of them another process may engage or     *)
(* clear the switch; the handlers of the same process run only while the    *)
(* run awaits something.                                                    *)
(*                                                                         *)
(* Abstractions: the database is the set of the records that the run's      *)
(* inserts leave behind (each has a primary key), the campaign's row and    *)
(* the switch. What ControlPlane and OperatorStatements model in detail     *)
(* (signatures, sessions, the audit of the switch, policy evidence) is      *)
(* taken to succeed or to make the run fail; that a session is committed    *)
(* before each decision is a step of its own. Mock accounts and the ledger  *)
(* live in the run's memory; with empty checkpoint plans and fresh receipts *)
(* they complete or throw.                                                  *)
(***************************************************************************)
EXTENDS CampaignMachine, DemoSaas, Sequences

(* The run's two decisions are named by the policy version they approve.    *)
ASSUME ScriptDecisionsAssumption == {1, 2} \subseteq Decisions

VARIABLES
  active,     \* the kill switch as readKillSwitchActive sees it
  unpaused,   \* somebody else's engagement has yet to pause the campaigns
  campaign,   \* the row of campaign-local-demo
  stored,     \* every other record in the database and the event store
  demo,       \* the demo application of the process
  place,      \* where the process is
  step,       \* the next step of the script while place = "run"
  held,       \* the campaign row the run goes on with
  outcome,    \* of the last run: "none", "completed" or "failed"
  lost,       \* ghost: that failed run could not engage the switch
  late        \* ghost: effects of the run since the switch is engaged

databaseVars == <<active, unpaused, campaign, stored>>
runVars == <<place, step, held, outcome, lost, late>>
simulationVars == <<databaseVars, demo, runVars>>

NoCampaign == [state |-> "absent", revision |-> 0, version |-> 0,
               approval |-> NoDecision, kill |-> "clear"]
MakeCampaign(version) == [state |-> "draft", revision |-> 0,
                          version |-> version, approval |-> NoDecision,
                          kill |-> "clear"]

(* The records, named by what inserts them.                                 *)
Records ==
  ({"program", "object", "report", "report_request"} \X {0})
    \cup ({"policy", "policy_request", "policy_decision", "policy_acceptance",
           "campaign_request", "campaign_decision"} \X {1, 2})
    \cup ({"identity", "event"} \X {1, 2, 3})
Dashboards == {<<"report_decision", 0>>}

-----------------------------------------------------------------------------
(* The body of run, in order, with acceptPolicy and the start of a campaign *)
(* written out where they are called. Every recordStep and every            *)
(* assertNotKilled is a "check"; the steps in Awaited end with an await.    *)
Check == <<"check", 0>>

Script ==
  <<<<"evidence", 0>>, <<"event_keys", 0>>, <<"session", 0>>, <<"clear", 0>>,
    <<"program", 0>>, Check, <<"policy", 1>>, Check,
    <<"policy_request", 1>>, <<"session", 0>>, <<"policy_decision", 1>>,
    <<"policy_acceptance", 1>>, Check,
    <<"insert_campaign", 1>>, <<"request_approval", 1>>, Check,
    <<"campaign_request", 1>>, <<"session", 0>>, <<"campaign_decision", 1>>,
    <<"approve", 1>>, <<"start_simulation", 1>>, Check,
    <<"provision", 1>>, Check, <<"identity", 1>>,
    <<"provision", 2>>, Check, <<"identity", 2>>,
    <<"provision", 3>>, Check, <<"identity", 3>>, Check,
    <<"test_object", 0>>, Check, <<"activate_account", 0>>, Check,
    <<"register_object", 0>>, Check, <<"object", 0>>, <<"assert_object", 0>>,
    Check, <<"event", 1>>, Check, <<"event", 2>>, Check, <<"event", 3>>,
    Check, <<"demo_drift", 0>>, Check, <<"policy_drift", 1>>, Check,
    <<"policy", 2>>, Check,
    <<"policy_request", 2>>, <<"session", 0>>, <<"policy_decision", 2>>,
    <<"policy_acceptance", 2>>, Check,
    <<"rebind", 2>>, <<"campaign_request", 2>>, <<"session", 0>>,
    <<"campaign_decision", 2>>, <<"approve", 2>>, <<"start_simulation", 2>>,
    Check,
    <<"report", 0>>, Check, <<"report_request", 0>>, Check>>

Awaited == {"event_keys", "provision", "activate_account", "register_object",
            "event"}
Harmless == {"check", "evidence", "provision", "activate_account",
             "register_object", "assert_object"}

Running == place = "run"
At(name) == Running /\ step <= Len(Script) /\ Script[step][1] = name

(* The event loop is free for the other handlers of the process.            *)
LoopIsFree == place = "idle" \/ \E name \in Awaited : At(name)

SimulationTypeOK ==
  /\ active \in BOOLEAN
  /\ unpaused \in BOOLEAN
  /\ campaign \in Row \cup {NoCampaign}
  /\ stored \subseteq Records \cup Dashboards
  /\ demo.revision \in Nat /\ SeededObject \in demo.testObjects
  /\ place \in {"down", "start", "idle", "run", "catch", "engage", "pause",
                 "audit"}
  /\ step \in 1..(Len(Script) + 1)
  /\ held \in Row \cup {NoCampaign}
  /\ outcome \in {"none", "completed", "failed"}
  /\ lost \in BOOLEAN
  /\ late \in Nat

-----------------------------------------------------------------------------
Insert(record) == record \notin stored /\ stored' = stored \cup {record}

(* One step of the script was carried out.                                  *)
Advance ==
  /\ step' = step + 1
  /\ late' = IF active /\ Script[step][1] \notin Harmless
             THEN late + 1 ELSE late
  /\ UNCHANGED <<place, outcome, lost>>

(* assertCampaignPersistenceBindings: policy, acceptance and approval of a  *)
(* row that is read or written, and a clear switch for one in force.        *)
Bound(row) ==
  /\ row # NoCampaign
  /\ <<"policy", row.version>> \in stored
  /\ row.state \in Unsafe \cup {"awaiting_campaign_approval"} =>
       <<"policy_acceptance", row.version>> \in stored
  /\ row.state \in Unsafe =>
       /\ <<"campaign_decision", row.version>> \in stored
       /\ ~active
       /\ row.kill = "clear"

(* updateCampaign: compares revisions, then transition and bindings.        *)
CanUpdateCampaign(next) ==
  /\ Bound(campaign)
  /\ campaign.revision + 1 = next.revision
  /\ StoreAllows(campaign, next)
  /\ Bound(next)

-----------------------------------------------------------------------------
(* POST /api/simulation/run while no run is under way; lastSimulation keeps *)
(* the summary of an earlier run. Then evidence and its age, the review     *)
(* digest, the fresh state and the signer.                                  *)
StartRun ==
  /\ place = "idle"
  /\ place' = "run" /\ step' = 1 /\ held' = NoCampaign /\ late' = 0
  /\ lost' = FALSE
  /\ UNCHANGED <<databaseVars, demo, outcome>>

ValidateEvidence ==
  /\ At("evidence")
  /\ active
  /\ demo.policyVersion = 1
  /\ Advance
  /\ UNCHANGED <<databaseVars, demo, held>>

(* assertEventKeyReady, coordinator.execute, ledger.activateAccount and     *)
(* ledger.registerObject: awaited, and only the first leaves anything       *)
(* outside the run's memory, the genesis record of new event keys.          *)
Await ==
  /\ \E name \in {"event_keys", "provision", "activate_account",
                  "register_object"} : At(name)
  /\ Advance
  /\ UNCHANGED <<databaseVars, demo, held>>

(* ensureOperatorEnrolled: a signed statement of its own commit, whether or *)
(* not the switch is engaged; its nonce is fresh and nothing below reads    *)
(* it. The first one may be an enrolment, which a clear switch refuses, as   *)
(* it refuses the step after it.                                            *)
EnsureOperatorEnrolled ==
  /\ At("session")
  /\ Advance
  /\ UNCHANGED <<databaseVars, demo, held>>

(* describeKillSwitchClear and clearKillSwitch                              *)
ClearForRun ==
  /\ At("clear")
  /\ active
  /\ active' = FALSE
  /\ campaign' = PausedByKillSwitch(campaign)
  /\ step' = step + 1
  /\ late' = 0
  /\ UNCHANGED <<unpaused, stored, demo, held, place, outcome, lost>>

(* Mutant: the switch is looked at when the run starts, and not again.      *)
NotKilledAtStart == TRUE

(* assertNotKilled                                                          *)
NotKilled == ~active

AssertNotKilled ==
  /\ At("check")
  /\ NotKilled
  /\ Advance
  /\ UNCHANGED <<databaseVars, demo, held>>

-----------------------------------------------------------------------------
(* createProgram, addPolicyVersion, persistApproval and the records of the  *)
(* report: plain inserts. The event store refuses an event it has.          *)
InsertRecord ==
  /\ \E name \in {"program", "policy", "policy_request", "campaign_request",
                  "identity", "event", "report", "report_request"} : At(name)
  /\ Insert(Script[step])
  /\ Advance
  /\ UNCHANGED <<active, unpaused, campaign, demo, held>>

(* decideApproval, acceptPolicy, insertOwnedObject: not under the switch.   *)
InsertUnlessKilled ==
  /\ \E name \in {"policy_decision", "policy_acceptance",
                  "campaign_decision"} : At(name)
  /\ ~active
  /\ Insert(Script[step])
  /\ Advance
  /\ UNCHANGED <<active, unpaused, campaign, demo, held>>

(* insertOwnedObject and assertOwnedObject with their bindings: the owner's *)
(* identity and a campaign that runs under the accepted policy.             *)
OwnershipBound ==
  /\ ~active
  /\ Bound(campaign)
  /\ campaign.state = "running_simulation"
  /\ <<"identity", 1>> \in stored

InsertOwnedObject ==
  /\ At("object")
  /\ OwnershipBound
  /\ Insert(Script[step])
  /\ Advance
  /\ UNCHANGED <<active, unpaused, campaign, demo, held>>

AssertOwnedObject ==
  /\ At("assert_object")
  /\ OwnershipBound
  /\ <<"object", 0>> \in stored
  /\ Advance
  /\ UNCHANGED <<databaseVars, demo, held>>

(* insertCampaign                                                           *)
InsertCampaign ==
  /\ At("insert_campaign")
  /\ campaign = NoCampaign
  /\ Bound(MakeCampaign(1))
  /\ campaign' = MakeCampaign(1)
  /\ held' = MakeCampaign(1)
  /\ Advance
  /\ UNCHANGED <<active, unpaused, stored, demo>>

(* advanceCampaign: the next row is computed from the row that the run      *)
(* holds; the accepted version and the decision are the script's own.       *)
RunContext(version) == [accepted |-> version, startable |-> TRUE,
                        kill |-> IF active THEN "engaged" ELSE "clear"]

AdvanceCampaign(event) ==
  /\ At(event)
  /\ LET version == Script[step][2]
         next == TransitionCampaign(held, event, RunContext(version), version)
     IN /\ MachineAllows(held, event, RunContext(version))
        /\ CanUpdateCampaign(next)
        /\ campaign' = next
        /\ held' = next
  /\ Advance
  /\ UNCHANGED <<active, unpaused, stored, demo>>

(* rebindCampaign, written with updateCampaign.                             *)
Rebind ==
  /\ At("rebind")
  /\ LET next == RebindCampaign(held, 2)
     IN /\ CanUpdateCampaign(next)
        /\ campaign' = next
        /\ held' = next
  /\ Advance
  /\ UNCHANGED <<active, unpaused, stored, demo>>

-----------------------------------------------------------------------------
(* The two changes the run makes to the demo application.                   *)
SimulationObject == TestObject("object-simulation-002", "canary-simulation-002")

CreateSimulationObject ==
  /\ At("test_object")
  /\ CanCreateTestObject(demo, SimulationObject)
  /\ demo' = CreateTestObject(demo, SimulationObject)
  /\ Advance
  /\ UNCHANGED <<databaseVars, held>>

DriftDemoPolicy ==
  /\ At("demo_drift")
  /\ CanSimulatePolicyDrift(demo, 1)
  /\ demo' = SimulatePolicyDrift(demo)
  /\ Advance
  /\ UNCHANGED <<databaseVars, held>>

(* The last check of run, and the summary it returns.                       *)
CompleteRun ==
  /\ Running
  /\ step > Len(Script)
  /\ ~active
  /\ place' = "idle"
  /\ outcome' = "completed"
  /\ step' = 1 /\ late' = 0 /\ held' = NoCampaign
  /\ UNCHANGED <<databaseVars, demo, lost>>

-----------------------------------------------------------------------------
(* Any step may throw: a refusal of the store, a busy database, a secret    *)
(* that cannot be read, a clock that went back.                             *)
RunThrows ==
  /\ Running
  /\ place' = "catch"
  /\ step' = 1 /\ late' = 0 /\ held' = NoCampaign
  /\ UNCHANGED <<databaseVars, demo, outcome, lost>>

RunFailed ==
  /\ place' = "idle"
  /\ outcome' = "failed"
  /\ UNCHANGED <<step, held, late>>

(* Mutant: only a running campaign is thought to need the switch.           *)
NeedsEngagementIfRunning == ~active /\ campaign.state = "running_simulation"

(* The catch of run: an active switch is left as it is.                     *)
NeedsEngagement == ~active

CatchSwitchActive ==
  /\ place = "catch"
  /\ ~NeedsEngagement
  /\ RunFailed
  /\ UNCHANGED <<databaseVars, demo, lost>>

CatchSwitchClear ==
  /\ place = "catch"
  /\ NeedsEngagement
  /\ place' = "engage"
  /\ UNCHANGED <<databaseVars, demo, step, held, outcome, lost, late>>

(* setKillSwitch(true) in its three commits; its errors are swallowed.      *)
CatchEngage ==
  /\ place = "engage"
  /\ place' = "pause"
  /\ active' = TRUE
  /\ UNCHANGED <<unpaused, campaign, stored, demo, step, held, outcome, lost,
                 late>>

CatchPause ==
  /\ place = "pause"
  /\ place' = "audit"
  /\ campaign' = PausedByKillSwitch(campaign)
  /\ UNCHANGED <<active, unpaused, stored, demo, step, held, outcome, lost,
                 late>>

CatchEnd ==
  /\ place \in {"engage", "pause", "audit"}
  /\ RunFailed
  /\ lost' = (place = "engage")
  /\ UNCHANGED <<databaseVars, demo>>

-----------------------------------------------------------------------------
(* setKillSwitch(true) by another process at any time, or by this one's     *)
(* dashboard: engaged first, the campaigns paused in a second commit that   *)
(* may never come, and that comes whatever has become of the switch. Of     *)
(* several engagements each owes a pause.                                   *)
Engage ==
  /\ active' = TRUE
  /\ unpaused' = TRUE
  /\ late' = IF active THEN late ELSE 0
  /\ UNCHANGED <<campaign, stored, demo, place, step, held, outcome, lost>>

PauseCampaigns ==
  /\ unpaused
  /\ unpaused' \in BOOLEAN
  /\ campaign' = PausedByKillSwitch(campaign)
  /\ UNCHANGED <<active, stored, demo, runVars>>

(* clearKillSwitch with a signed statement; it pauses before it clears.     *)
ClearKillSwitch ==
  /\ active
  /\ active' = FALSE
  /\ campaign' = PausedByKillSwitch(campaign)
  /\ late' = 0
  /\ UNCHANGED <<unpaused, stored, demo, place, step, held, outcome, lost>>

(* POST /api/programs/import of the program the run would create.           *)
ImportProgram ==
  /\ LoopIsFree
  /\ Insert(<<"program", 0>>)
  /\ UNCHANGED <<active, unpaused, campaign, demo, runVars>>

(* POST /api/approvals/decide of an approval that a run has left open.      *)
OpenApprovals ==
  {<<"policy_decision", v>> : v \in {w \in {1, 2} :
       <<"policy_request", w>> \in stored}}
    \cup {<<"campaign_decision", v>> : v \in {w \in {1, 2} :
            <<"campaign_request", w>> \in stored}}
    \cup {<<"report_decision", 0>> : v \in {w \in {0} :
            <<"report_request", w>> \in stored}}

DecideApproval ==
  /\ LoopIsFree
  /\ ~active
  /\ \E decision \in OpenApprovals : Insert(decision)
  /\ UNCHANGED <<active, unpaused, campaign, demo, runVars>>

-----------------------------------------------------------------------------
SimulationInit ==
  /\ active = TRUE /\ unpaused = FALSE
  /\ campaign = NoCampaign
  /\ stored = {}
  /\ demo = Fixture
  /\ place = "down" /\ step = 1 /\ held = NoCampaign
  /\ outcome = "none" /\ lost = FALSE /\ late = 0

(* startLocalApplication engages the switch before anything else, in the    *)
(* commits of setKillSwitch(true). A start that fails is a crash.           *)
EngageAtStart ==
  /\ place = "down"
  /\ place' = "start"
  /\ active' = TRUE
  /\ UNCHANGED <<unpaused, campaign, stored, demo, step, held, outcome, lost,
                 late>>

(* The pause, and then everything up to the listening dashboard: the demo   *)
(* starts from its fixture, and no run is remembered.                       *)
StartProcess ==
  /\ place = "start"
  /\ place' = "idle"
  /\ campaign' = PausedByKillSwitch(campaign)
  /\ demo' = Fixture
  /\ outcome' = "none" /\ lost' = FALSE
  /\ UNCHANGED <<active, unpaused, stored, step, held, late>>

CrashProcess ==
  /\ place # "down"
  /\ place' = "down"
  /\ step' = 1 /\ held' = NoCampaign /\ outcome' = "none" /\ lost' = FALSE
  /\ late' = 0
  /\ UNCHANGED <<databaseVars, demo>>

RunStep ==
  \/ ValidateEvidence
  \/ Await
  \/ EnsureOperatorEnrolled
  \/ ClearForRun
  \/ AssertNotKilled
  \/ InsertRecord
  \/ InsertUnlessKilled
  \/ InsertOwnedObject
  \/ AssertOwnedObject
  \/ InsertCampaign
  \/ \E event \in {"request_approval", "approve", "start_simulation",
                   "policy_drift"} : AdvanceCampaign(event)
  \/ Rebind
  \/ CreateSimulationObject
  \/ DriftDemoPolicy
  \/ CompleteRun
  \/ RunThrows
  \/ CatchSwitchActive
  \/ CatchSwitchClear
  \/ CatchEngage
  \/ CatchPause
  \/ CatchEnd

Others ==
  \/ Engage
  \/ PauseCampaigns
  \/ ClearKillSwitch

-----------------------------------------------------------------------------
(* An engaged switch stops a run after at most three more writes, whichever *)
(* step it meets: between two looks at the switch the run may still rebind  *)
(* its campaign, ask for an approval and open the operator's session, and   *)
(* an event that is being written is still written. The decision is then    *)
(* refused (assertNotKilled, rebindCampaign, decideApproval).               *)
EngagedSwitchStopsRun == late <= 3

(* A campaign that could execute under a clear switch has a run behind it:  *)
(* one that is under way or about to engage the switch, or one that has     *)
(* completed. Exempt are a process that is down, which engages the switch   *)
(* when it starts, and a run whose catch could not engage it.               *)
CampaignInForceHasARun ==
  campaign.state \in Unsafe /\ ~active =>
    \/ place \in {"down", "run", "catch", "engage"}
    \/ outcome = "completed"
    \/ lost
=============================================================================
