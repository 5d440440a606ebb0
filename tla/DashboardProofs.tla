---------------------------- MODULE DashboardProofs ----------------------------
(***************************************************************************)
(* Proofs about the local application: the simulation run beside every      *)
(* interleaving with other processes, its own handlers, throws and crashes, *)
(* and the guided product in the same process. They hold for every capacity *)
(* of the demo, every set of environments and every input of the product.   *)
(***************************************************************************)
EXTENDS Dashboard, LocalProductProofs

(* How many effects of the run can lie behind a step of the script since an *)
(* engagement that no earlier step has seen: those of the steps since the   *)
(* last one that an engaged switch refuses.                                 *)
ThreeUnseen == {62}
TwoUnseen == {4, 11, 16, 19, 56, 61}
OneUnseen == {3, 6, 8, 10, 15, 18, 26, 27, 29, 30, 32, 34, 43, 45, 47, 49, 51,
              53, 55, 60, 67, 69}
Unseen(i) ==
  IF i \in ThreeUnseen THEN 3
  ELSE IF i \in TwoUnseen THEN 2
  ELSE IF i \in OneUnseen THEN 1 ELSE 0

LateInv == late <= (IF Running /\ active THEN Unseen(step) ELSE 0)

(* A campaign in force, by the place of the process: once a run has left    *)
(* its catch, only a completed or a lost one leaves a campaign behind.      *)
InForceInv ==
  campaign.state \in Unsafe /\ ~active =>
    \/ place \in {"down", "run", "catch", "engage"}
    \/ place = "idle" /\ (outcome = "completed" \/ lost)

RunTypeInv ==
  /\ SimulationTypeOK
  /\ DOMAIN demo = {"revision", "testObjects", "policyVersion"}

RunInv ==
  /\ RunTypeInv
  /\ LateInv
  /\ InForceInv

-----------------------------------------------------------------------------
(* The script                                                               *)

(* The steps that an engaged switch refuses, so that nothing of the run     *)
(* follows them under it; a clear takes the engagement back instead.        *)
Refused == {"check", "policy_decision", "policy_acceptance",
            "campaign_decision", "object", "assert_object", "approve",
            "start_simulation"}

LEMMA ScriptLength == Len(Script) = 69
  BY DEF Script

(* What every step of the script inserts is one of the records.             *)
LEMMA ScriptRecords ==
  ASSUME NEW i \in 1..69, Script[i][1] \in
           {"program", "policy", "policy_request", "policy_decision",
            "policy_acceptance", "campaign_request", "campaign_decision",
            "identity", "object", "event", "report", "report_request"}
  PROVE  Script[i] \in Records
  BY DEF Script, Records, Check

(* An engaged switch cannot be met by more effects than are counted.        *)
LEMMA UnseenSteps ==
  ASSUME NEW i \in 1..69, Script[i][1] \notin Refused \cup {"clear"}
  PROVE  /\ Script[i][1] \notin Harmless => Unseen(i) + 1 <= Unseen(i + 1)
         /\ Unseen(i) <= Unseen(i + 1)
  BY DEF Script, Refused, Harmless, Unseen, OneUnseen, TwoUnseen, ThreeUnseen,
         Check

LEMMA AdvanceVersions ==
  ASSUME NEW i \in 1..69,
         Script[i][1] \in {"approve", "request_approval", "start_simulation",
                           "policy_drift"}
  PROVE  Script[i][2] \in {1, 2}
  BY DEF Script, Check

-----------------------------------------------------------------------------
(* Types                                                                    *)

(* A pause by the switch leaves a row that could not execute.               *)
LEMMA SwitchPause ==
  ASSUME NEW row \in Row \cup {NoCampaign}
  PROVE  /\ PausedByKillSwitch(row) \in Row \cup {NoCampaign}
         /\ PausedByKillSwitch(row).state \notin Unsafe
  <1>1. CASE row.state \in Unsafe
    <2>1. row \in Row
      BY <1>1 DEF NoCampaign, Unsafe
    <2>2. PausedByKillSwitch(row) =
            [state |-> "paused", revision |-> row.revision + 1,
             version |-> row.version, approval |-> NoDecision,
             kill |-> "engaged"]
      BY <1>1, <2>1 DEF PausedByKillSwitch, Row
    <2>3. PausedByKillSwitch(row) \in Row
      BY <2>1, <2>2 DEF Row, States, KillStatus
    <2> QED
      BY <2>2, <2>3 DEF Unsafe
  <1> QED
    BY <1>1 DEF PausedByKillSwitch

(* A pause is a change of one revision.                                     *)
LEMMA PausedRevision ==
  ASSUME NEW row \in Row \cup {NoCampaign}, row.state \in Unsafe
  PROVE  /\ PausedByKillSwitch(row).state = "paused"
         /\ PausedByKillSwitch(row).revision = row.revision + 1
  BY DEF PausedByKillSwitch, Row, NoCampaign, Unsafe

(* The row that the run computes from the one it holds is a row.            *)
LEMMA AdvancedRow ==
  ASSUME RunTypeInv, Running, step <= Len(Script),
         NEW event \in {"request_approval", "approve", "start_simulation",
                        "policy_drift"},
         Script[step][1] = event,
         MachineAllows(held, event, RunContext(Script[step][2]))
  PROVE  TransitionCampaign(held, event, RunContext(Script[step][2]),
                            Script[step][2]) \in Row
  <1> DEFINE version == Script[step][2]
             context1 == RunContext(version)
  <1>1. version \in {1, 2}
    <2>1. step \in 1..69
      BY ScriptLength DEF RunTypeInv, SimulationTypeOK
    <2> QED
      BY <2>1, AdvanceVersions
  <1>2. held \in Row
    BY DEF MachineAllows, Sources, NoCampaign, Unsafe, RunTypeInv,
           SimulationTypeOK
  <1>3. Target(held, event, context1) \in States
    BY DEF Target, States
  <1>4. context1.kill \in KillStatus
    BY DEF RunContext, KillStatus
  <1> QED
    BY <1>1, <1>2, <1>3, <1>4, ScriptDecisionsAssumption
    DEF TransitionCampaign, Row, KeepApproval

LEMMA AdvanceType ==
  ASSUME RunTypeInv, Running, step <= Len(Script), Advance
  PROVE  step' \in 1..(Len(Script) + 1) /\ late' \in Nat
  BY ScriptLength DEF RunTypeInv, SimulationTypeOK, Advance

LEMMA RunStepType ==
  ASSUME RunTypeInv, RunStep
  PROVE  RunTypeInv'
  <1> USE DEF RunTypeInv, SimulationTypeOK, databaseVars, At
  <1>a. MakeCampaign(1) \in Row
    BY DEF MakeCampaign, Row, States, KillStatus
  <1>b. 1 \in 1..(Len(Script) + 1)
    BY ScriptLength
  <1>1. CASE ValidateEvidence \/ Await \/ EnsureOperatorEnrolled
               \/ AssertNotKilled \/ AssertOwnedObject
    BY <1>1, AdvanceType
    DEF ValidateEvidence, Await, EnsureOperatorEnrolled, AssertNotKilled,
        AssertOwnedObject, Advance
  <1>2. CASE ClearForRun
    <2>1. step' \in 1..(Len(Script) + 1)
      BY <1>2, ScriptLength DEF ClearForRun
    <2> QED
      BY <1>2, <2>1, SwitchPause DEF ClearForRun
  <1>3. CASE InsertRecord \/ InsertUnlessKilled \/ InsertOwnedObject
    <2>1. /\ Running /\ step <= Len(Script)
          /\ Script[step] \in Records
          /\ stored' = stored \cup {Script[step]}
      BY <1>3, ScriptRecords, ScriptLength
      DEF InsertRecord, InsertUnlessKilled, InsertOwnedObject, Insert
    <2>2. stored' \subseteq Records \cup Dashboards
      BY <2>1
    <2> QED
      BY <1>3, <2>1, <2>2, AdvanceType
      DEF InsertRecord, InsertUnlessKilled, InsertOwnedObject, Advance
  <1>4. CASE InsertCampaign
    BY <1>4, <1>a, AdvanceType DEF InsertCampaign, Advance
  <1>5. ASSUME NEW event \in {"request_approval", "approve",
                              "start_simulation", "policy_drift"},
               AdvanceCampaign(event)
        PROVE  RunTypeInv'
    <2>1. campaign' \in Row /\ held' \in Row
      BY <1>5, AdvancedRow DEF AdvanceCampaign
    <2> QED
      BY <1>5, <2>1, AdvanceType DEF AdvanceCampaign, Advance
  <1>6. CASE Rebind
    <2>1. RebindCampaign(held, 2) \in Row
      BY DEF NoCampaign, Row, States, KillStatus, RebindCampaign
    <2> QED
      BY <1>6, <2>1, AdvanceType DEF Rebind, Advance
  <1>7. CASE CreateSimulationObject
    <2>1. demo' = [revision |-> demo.revision + 1,
                   testObjects |-> demo.testObjects \cup {SimulationObject},
                   policyVersion |-> demo.policyVersion]
      BY <1>7 DEF CreateSimulationObject, CreateTestObject
    <2> QED
      BY <1>7, <2>1, AdvanceType DEF CreateSimulationObject, Advance
  <1>8. CASE DriftDemoPolicy
    <2>1. demo' = [revision |-> demo.revision + 1,
                   testObjects |-> demo.testObjects,
                   policyVersion |-> demo.policyVersion + 1]
      BY <1>8 DEF DriftDemoPolicy, SimulatePolicyDrift
    <2> QED
      BY <1>8, <2>1, AdvanceType DEF DriftDemoPolicy, Advance
  <1>9. CASE CompleteRun \/ RunThrows
    BY <1>9, <1>b DEF CompleteRun, RunThrows
  <1>10. CASE CatchSwitchActive \/ CatchSwitchClear \/ CatchEngage \/ CatchEnd
    BY <1>10
    DEF CatchSwitchActive, CatchSwitchClear, CatchEngage, CatchEnd, RunFailed
  <1>11. CASE CatchPause
    BY <1>11, SwitchPause DEF CatchPause
  <1> QED
    BY <1>1, <1>2, <1>3, <1>4, <1>5, <1>6, <1>7, <1>8, <1>9, <1>10, <1>11
    DEF RunStep

(* Other processes and the handlers that do not step the run.               *)
Interrupt == Others \/ StartRun \/ ImportProgram \/ DecideApproval

(* The process as a whole.                                                  *)
ProcessStep == EngageAtStart \/ StartProcess \/ CrashProcess

LEMMA InterruptType ==
  ASSUME RunTypeInv, Interrupt
  PROVE  RunTypeInv'
  <1> USE DEF RunTypeInv, SimulationTypeOK, databaseVars, runVars
  <1>a. active \in BOOLEAN /\ late \in Nat
    OBVIOUS
  <1>1. CASE Engage
    BY <1>1, <1>a DEF Engage
  <1>b. 1 \in 1..(Len(Script) + 1)
    BY ScriptLength
  <1>2. CASE PauseCampaigns \/ ClearKillSwitch
    <2>1. campaign' \in Row \cup {NoCampaign}
      BY <1>2, SwitchPause DEF PauseCampaigns, ClearKillSwitch
    <2>2. CASE PauseCampaigns
      BY <2>1, <2>2 DEF PauseCampaigns
    <2>3. CASE ClearKillSwitch
      BY <2>1, <2>3 DEF ClearKillSwitch
    <2> QED
      BY <1>2, <2>2, <2>3
  <1>3. CASE StartRun
    BY <1>3, <1>b DEF StartRun
  <1>4. CASE ImportProgram \/ DecideApproval
    <2>1. /\ \A v \in {1, 2} : /\ <<"policy_decision", v>> \in Records
                              /\ <<"campaign_decision", v>> \in Records
          /\ <<"report_decision", 0>> \in Dashboards
      BY DEF Records, Dashboards
    <2>2. <<"program", 0>> \in Records
      BY DEF Records
    <2>3. stored' \subseteq Records \cup Dashboards
      BY <1>4, <2>1, <2>2
      DEF ImportProgram, DecideApproval, OpenApprovals, Insert
    <2> QED
      BY <1>4, <2>3 DEF ImportProgram, DecideApproval
  <1> QED
    BY <1>1, <1>2, <1>3, <1>4 DEF Interrupt, Others

LEMMA ProcessType ==
  ASSUME RunTypeInv, ProcessStep
  PROVE  RunTypeInv'
  <1> USE DEF RunTypeInv, SimulationTypeOK, databaseVars
  <1>1. CASE EngageAtStart
    BY <1>1 DEF EngageAtStart
  <1>2. CASE StartProcess
    BY <1>2, SwitchPause DEF StartProcess, Fixture
  <1>3. CASE CrashProcess
    <2>1. 1 \in 1..(Len(Script) + 1)
      BY ScriptLength
    <2> QED
      BY <1>3, <2>1 DEF CrashProcess
  <1> QED
    BY <1>1, <1>2, <1>3 DEF ProcessStep

-----------------------------------------------------------------------------
(* Effects under an engaged switch                                          *)

(* A step of the script that an engaged switch does not refuse.             *)
LEMMA AdvanceLate ==
  ASSUME RunTypeInv, LateInv, Running, step <= Len(Script), Advance,
         active' = active, active => Script[step][1] \notin Refused,
         Script[step][1] # "clear"
  PROVE  LateInv'
  <1>1. step \in 1..69 /\ late \in Nat
    BY ScriptLength DEF RunTypeInv, SimulationTypeOK
  <1>2. CASE active
    <2>1. Script[step][1] \notin Refused \cup {"clear"}
      BY <1>2
    <2>2. late <= Unseen(step) /\ place' = place /\ active'
      BY <1>2 DEF LateInv, Advance, Running
    <2>3. /\ Script[step][1] \notin Harmless =>
               Unseen(step) + 1 <= Unseen(step + 1)
          /\ Unseen(step) <= Unseen(step + 1)
      BY <1>1, <2>1, UnseenSteps
    <2>4. Unseen(step) \in Nat /\ Unseen(step + 1) \in Nat
      BY DEF Unseen
    <2>5. late' <= Unseen(step + 1) /\ step' = step + 1
      BY <1>1, <1>2, <2>2, <2>3, <2>4 DEF Advance
    <2> QED
      BY <2>2, <2>5 DEF LateInv, Advance, Running
  <1>3. CASE ~active
    BY <1>1, <1>3 DEF LateInv, Advance, Running
  <1> QED
    BY <1>2, <1>3

LEMMA RunStepLate ==
  ASSUME RunTypeInv, RunTypeInv', LateInv, RunStep
  PROVE  LateInv'
  <1> USE DEF At, databaseVars
  <1>a. active \in BOOLEAN /\ late \in Nat /\ step \in 1..70
    BY ScriptLength DEF RunTypeInv, SimulationTypeOK
  <1>1. CASE ValidateEvidence \/ Await \/ EnsureOperatorEnrolled
               \/ InsertRecord \/ InsertCampaign \/ Rebind
               \/ CreateSimulationObject \/ DriftDemoPolicy
    BY <1>1, AdvanceLate
    DEF ValidateEvidence, Await, EnsureOperatorEnrolled, InsertRecord,
        InsertCampaign, Rebind, CreateSimulationObject, DriftDemoPolicy,
        Refused
  <1>2. CASE AssertNotKilled \/ InsertUnlessKilled \/ InsertOwnedObject
               \/ AssertOwnedObject
    <2>1. ~active /\ active' = active
      BY <1>2
      DEF AssertNotKilled, NotKilled, InsertUnlessKilled, InsertOwnedObject,
          AssertOwnedObject, OwnershipBound
    <2> QED
      BY <1>2, <2>1, AdvanceLate
      DEF AssertNotKilled, InsertUnlessKilled, InsertOwnedObject,
          AssertOwnedObject
  <1>3. CASE ClearForRun
    BY <1>3 DEF ClearForRun, LateInv
  <1>4. ASSUME NEW event \in {"request_approval", "approve",
                              "start_simulation", "policy_drift"},
               AdvanceCampaign(event)
        PROVE  LateInv'
    <2>1. event \in {"approve", "start_simulation"} => ~active
      BY <1>4
      DEF AdvanceCampaign, CanUpdateCampaign, Bound, TransitionCampaign, Target,
          Unsafe
    <2>2. active' = active /\ Advance /\ Running /\ step <= Len(Script)
          /\ Script[step][1] = event
      BY <1>4 DEF AdvanceCampaign
    <2> QED
      BY <2>1, <2>2, AdvanceLate DEF Refused
  <1>5. CASE CompleteRun \/ RunThrows
    BY <1>5 DEF CompleteRun, RunThrows, LateInv, Running
  <1>6. CASE CatchSwitchActive \/ CatchSwitchClear \/ CatchEngage
               \/ CatchPause \/ CatchEnd
    BY <1>6
    DEF CatchSwitchActive, CatchSwitchClear, CatchEngage, CatchPause, CatchEnd,
        RunFailed, LateInv, Running
  <1> QED
    BY <1>1, <1>2, <1>3, <1>4, <1>5, <1>6 DEF RunStep

LEMMA InterruptLate ==
  ASSUME RunTypeInv, LateInv, Interrupt \/ ProcessStep
  PROVE  LateInv'
  <1>1. active \in BOOLEAN /\ late \in Nat
    BY DEF RunTypeInv, SimulationTypeOK
  <1> QED
    BY <1>1
    DEF Interrupt, Others, Engage, PauseCampaigns, ClearKillSwitch, StartRun,
        ImportProgram, DecideApproval, ProcessStep, EngageAtStart,
        StartProcess, CrashProcess, LateInv, Running, Unseen, runVars,
        databaseVars

-----------------------------------------------------------------------------
(* The campaign in force                                                    *)

LEMMA RunStepInForce ==
  ASSUME RunTypeInv, InForceInv, RunStep
  PROVE  InForceInv'
  <1> USE DEF At, databaseVars, Running
  <1>a. campaign \in Row \cup {NoCampaign}
    BY DEF RunTypeInv, SimulationTypeOK
  <1>1. CASE ValidateEvidence \/ Await \/ EnsureOperatorEnrolled
               \/ ClearForRun \/ AssertNotKilled
               \/ InsertRecord \/ InsertUnlessKilled \/ InsertOwnedObject
               \/ AssertOwnedObject \/ InsertCampaign \/ Rebind
               \/ CreateSimulationObject \/ DriftDemoPolicy
    <2>1. place' = "run"
      BY <1>1
      DEF ValidateEvidence, Await, EnsureOperatorEnrolled, ClearForRun,
          AssertNotKilled, InsertRecord, InsertUnlessKilled, InsertOwnedObject, AssertOwnedObject,
          InsertCampaign, Rebind, CreateSimulationObject, DriftDemoPolicy,
          Advance
    <2> QED
      BY <2>1 DEF InForceInv
  <1>2. ASSUME NEW event \in {"request_approval", "approve",
                              "start_simulation", "policy_drift"},
               AdvanceCampaign(event)
        PROVE  InForceInv'
    BY <1>2 DEF AdvanceCampaign, Advance, InForceInv
  <1>3. CASE CompleteRun \/ RunThrows
    BY <1>3 DEF CompleteRun, RunThrows, InForceInv
  <1>4. CASE CatchSwitchActive \/ CatchSwitchClear \/ CatchEngage \/ CatchEnd
    BY <1>4
    DEF CatchSwitchActive, NeedsEngagement, CatchSwitchClear, CatchEngage,
        CatchEnd, RunFailed, InForceInv
  <1>5. CASE CatchPause
    BY <1>5, <1>a, SwitchPause DEF CatchPause, InForceInv
  <1> QED
    BY <1>1, <1>2, <1>3, <1>4, <1>5 DEF RunStep

LEMMA InterruptInForce ==
  ASSUME RunTypeInv, InForceInv, Interrupt \/ ProcessStep
  PROVE  InForceInv'
  <1>a. campaign \in Row \cup {NoCampaign}
    BY DEF RunTypeInv, SimulationTypeOK
  <1>1. CASE Engage \/ EngageAtStart
    BY <1>1 DEF Engage, EngageAtStart, InForceInv
  <1>2. CASE PauseCampaigns \/ ClearKillSwitch \/ StartProcess
    BY <1>2, <1>a, SwitchPause
    DEF PauseCampaigns, ClearKillSwitch, StartProcess, InForceInv
  <1>3. CASE StartRun
    BY <1>3 DEF StartRun, InForceInv
  <1>4. CASE ImportProgram \/ DecideApproval
    BY <1>4 DEF ImportProgram, DecideApproval, runVars, InForceInv
  <1>5. CASE CrashProcess
    BY <1>5 DEF CrashProcess, InForceInv
  <1> QED
    BY <1>1, <1>2, <1>3, <1>4, <1>5 DEF Interrupt, Others, ProcessStep

-----------------------------------------------------------------------------
(* The application                                                          *)

ProductInv == Inv /\ LocalProductTypeOK
ApplicationInv == RunInv /\ ProductInv

(* What a step of the application does to the run and to the product.       *)
LEMMA StepsOfTheApplication ==
  ASSUME Next
  PROVE  /\ \/ RunStep \/ Interrupt \/ ProcessStep
            \/ UNCHANGED simulationVars
         /\ \/ UNCHANGED productVars
            \/ \E at \in 0..MaxTime : Perform(at) \/ StartProduct(at)
            \/ product' = NewProduct(0) /\ UNCHANGED context
  BY DEF Next, StartLocalApplication, Crash, LocalProductAction,
         SimulationRoutes, SwitchRoutes, Run, Interrupt, ProcessStep,
         productVars

LEMMA RunKeepsInv ==
  ASSUME RunInv, RunStep \/ Interrupt \/ ProcessStep
  PROVE  RunInv'
  <1>1. RunTypeInv'
    BY RunStepType, InterruptType, ProcessType DEF RunInv
  <1>2. LateInv'
    BY <1>1, RunStepLate, InterruptLate DEF RunInv
  <1>3. InForceInv'
    BY RunStepInForce, InterruptInForce DEF RunInv
  <1> QED
    BY <1>1, <1>2, <1>3 DEF RunInv

LEMMA RunUndisturbed ==
  ASSUME RunInv, UNCHANGED simulationVars
  PROVE  RunInv'
  BY DEF RunInv, RunTypeInv, SimulationTypeOK, LateInv, InForceInv, Running,
         simulationVars, databaseVars, runVars

(* A process that went down forgets the product.                            *)
LEMMA ProductForgotten ==
  ASSUME ProductInv, product' = NewProduct(0), UNCHANGED context
  PROVE  ProductInv'
  <1>1. Inv'
    BY DEF NewProduct, Inv, FieldsInv, ProductFields, NothingInv, Nothing,
           Shape, ProgramAt, PolicyAt, CampaignAt, IdentitiesAt, JourneyAt,
           InventoryAt, CandidateAt, EvidenceAt, ReportAt, OneLineage,
           InventoryInv
  <1>2. 0 \in 0..MaxTime
    BY InputsAssumption
  <1>3. LocalProductTypeOK'
    BY <1>2, GuideLength
    DEF ProductInv, LocalProductTypeOK, NewProduct, Onboarding
  <1> QED
    BY <1>1, <1>3 DEF ProductInv

LEMMA ProductKeepsInv ==
  ASSUME ProductInv,
         \/ UNCHANGED productVars
         \/ \E at \in 0..MaxTime : Perform(at) \/ StartProduct(at)
         \/ product' = NewProduct(0) /\ UNCHANGED context
  PROVE  ProductInv'
  <1>1. CASE UNCHANGED productVars
    <2>1. Inv'
      BY <1>1, InvIsInductive DEF ProductInv
    <2> QED
      BY <1>1, <2>1 DEF productVars, LocalProductTypeOK, ProductInv
  <1>2. ASSUME NEW at \in 0..MaxTime, Perform(at) \/ StartProduct(at)
        PROVE  ProductInv'
    <2>1. Inv'
      BY <1>2, InvIsInductive DEF ProductInv, LocalProductNext
    <2> QED
      BY <1>2, <2>1, GuidedType, ManagementType, StartType
      DEF Perform, ProductInv
  <1> QED
    BY <1>1, <1>2, ProductForgotten

LEMMA ApplicationInvIsInductive ==
  ASSUME ApplicationInv, [Next]_vars
  PROVE  ApplicationInv'
  <1>1. CASE UNCHANGED vars
    BY <1>1, RunUndisturbed, ProductKeepsInv DEF vars, ApplicationInv
  <1>2. CASE Next
    BY <1>2, StepsOfTheApplication, RunKeepsInv, RunUndisturbed,
       ProductKeepsInv
    DEF ApplicationInv
  <1> QED
    BY <1>1, <1>2

LEMMA ApplicationStarts == Init => ApplicationInv
  <1> SUFFICES ASSUME Init PROVE ApplicationInv
    OBVIOUS
  <1>1. RunTypeInv
    <2>1. 1 \in 1..(Len(Script) + 1)
      BY ScriptLength
    <2> QED
      BY <2>1 DEF Init, SimulationInit, RunTypeInv, SimulationTypeOK, Fixture
  <1>2. LateInv /\ InForceInv
    BY DEF Init, SimulationInit, LateInv, Running, InForceInv
  <1>3. ProductInv
    BY Initially, InitType DEF Init, ProductInv
  <1> QED
    BY <1>1, <1>2, <1>3 DEF ApplicationInv, RunInv

(* The invariant holds in every state of the application (the process from  *)
(* its start to its end, handleRequest, run).                               *)
THEOREM ApplicationInvHolds == Spec => []ApplicationInv
  BY ApplicationStarts, ApplicationInvIsInductive, PTL DEF Spec

-----------------------------------------------------------------------------
(* Every variable of the application always has its type: the rows that the *)
(* run and the pauses of others write in turns are rows, whatever its       *)
(* script inserts is a record of its kind, and every snapshot of the        *)
(* product is one of its kind (run, advanceCampaign, setKillSwitch).        *)
THEOREM TypeCorrect == Spec => []TypeOK
  <1>1. ApplicationInv => TypeOK
    BY DEF ApplicationInv, ProductInv, RunInv, RunTypeInv, TypeOK
  <1> QED
    BY <1>1, ApplicationInvHolds, PTL

(* Whoever engages the switch at whatever step, the run carries out at most *)
(* three more effects, the last of them the session that precedes a refused *)
(* decision (recordStep, assertNotKilled, decideApproval and the store's    *)
(* checks).                                                                 *)
THEOREM RunsAreStopped == Spec => []EngagedSwitchStopsRun
  <1>1. ApplicationInv => EngagedSwitchStopsRun
    <2> SUFFICES ASSUME RunTypeInv, LateInv
                 PROVE  late <= 3
      BY DEF ApplicationInv, RunInv, EngagedSwitchStopsRun
    <2> QED
      BY DEF RunTypeInv, SimulationTypeOK, LateInv, Unseen
  <1> QED
    BY <1>1, ApplicationInvHolds, PTL

(* A campaign that could execute under a clear switch has a run behind it,  *)
(* unless the catch of its run could not engage the switch (the catch of    *)
(* run, reconcileKillSwitchSafety).                                         *)
THEOREM CampaignsHaveRuns == Spec => []CampaignInForceHasARun
  <1>1. ApplicationInv => CampaignInForceHasARun
    BY DEF ApplicationInv, RunInv, InForceInv, CampaignInForceHasARun
  <1> QED
    BY <1>1, ApplicationInvHolds, PTL

(* A demo that has moved away from what the product was bound to freezes    *)
(* the product until the next start (assertLocalProductRuntimePreconditions *)
(* before every action of the product).                                     *)
THEOREM DriftFreezes == Spec => DriftFreezesProduct
  <1>1. [Next]_vars =>
          [/\ ~DemoBindingValid
           /\ place \notin {"down", "start"}
           /\ place' # "down"
           => product' = product]_vars
    BY DEF Next, StartLocalApplication, EngageAtStart, StartProcess, Crash,
           CrashProcess, LocalProductAction, RuntimePreconditions, SimulationRoutes,
           SwitchRoutes, Run, productVars
  <1> QED
    BY <1>1, PTL DEF Spec, DriftFreezesProduct

(* The two properties of the product survive its composition with the       *)
(* simulation, a crash that forgets it and a start that makes a new one.    *)
THEOREM ProductStaysTogether ==
  Spec => [](SnapshotsAgree /\ OfferedActionsApply)
  <1>1. ApplicationInv => SnapshotsAgree /\ OfferedActionsApply
    BY ShapesAgree, NextActionApplies, OffersArePermissions
    DEF ApplicationInv, ProductInv, SnapshotsAgree, OfferedActionsApply, Inv
  <1> QED
    BY <1>1, ApplicationInvHolds, PTL

-----------------------------------------------------------------------------
(* The refinement: what the run does to its campaign and what everybody     *)
(* does to the switch is what the pipeline is promised of both. The         *)
(* campaign goes live only under a clear switch, each interruption uses up  *)
(* the live revision, and no clear leaves it live, not even one between the *)
(* commits of a start or of a catch.                                        *)
CampaignOfTheRun == INSTANCE CampaignEvidence WITH
  killActive <- active, live <- campaign.state = "running_simulation",
  revision <- campaign.revision

ImplementsCampaignEvidence == CampaignOfTheRun!EvidenceSpec

(* A step changes the campaign, or the switch, or neither.                  *)
KeepsEvidence == UNCHANGED CampaignOfTheRun!evidence
EvidenceStep == CampaignOfTheRun!EvidenceNext \/ KeepsEvidence

(* A pause of the row under a switch that stays as it is.                   *)
LEMMA PauseEvidence ==
  ASSUME RunTypeInv, campaign' = PausedByKillSwitch(campaign),
         active' = active
  PROVE  EvidenceStep
  <1> USE DEF EvidenceStep, KeepsEvidence, CampaignOfTheRun!evidence,
              CampaignOfTheRun!EvidenceNext
  <1>1. campaign \in Row \cup {NoCampaign}
    BY DEF RunTypeInv, SimulationTypeOK
  <1>2. CASE campaign.state = "running_simulation"
    <2>1. CampaignOfTheRun!Interrupt
      BY <1>1, <1>2, PausedRevision DEF CampaignOfTheRun!Interrupt, Unsafe
    <2> QED
      BY <2>1
  <1>3. CASE campaign.state = "approved"
    <2>1. CampaignOfTheRun!Bump
      BY <1>1, <1>3, PausedRevision DEF CampaignOfTheRun!Bump, Unsafe
    <2> QED
      BY <2>1
  <1>4. CASE campaign.state \notin Unsafe
    BY <1>4 DEF PausedByKillSwitch
  <1> QED
    BY <1>2, <1>3, <1>4 DEF Unsafe

(* A clear pauses in its own transaction.                                   *)
LEMMA ClearEvidence ==
  ASSUME RunTypeInv, campaign' = PausedByKillSwitch(campaign),
         active, active' = FALSE
  PROVE  EvidenceStep
  <1>1. campaign \in Row \cup {NoCampaign}
    BY DEF RunTypeInv, SimulationTypeOK
  <1>2. CASE campaign.state \in Unsafe
    <2>1. /\ campaign'.state = "paused"
          /\ campaign'.revision = campaign.revision + 1
      BY <1>1, <1>2, PausedRevision
    <2> QED
      BY <2>1
      DEF EvidenceStep, CampaignOfTheRun!EvidenceNext,
          CampaignOfTheRun!ClearKill
  <1>3. CASE campaign.state \notin Unsafe
    <2>1. campaign' = campaign /\ campaign.state # "running_simulation"
      BY <1>3 DEF PausedByKillSwitch, Unsafe
    <2> QED
      BY <2>1
      DEF EvidenceStep, CampaignOfTheRun!EvidenceNext,
          CampaignOfTheRun!ClearKill
  <1> QED
    BY <1>2, <1>3

(* An update that the store accepts, of a row that may since have been      *)
(* paused: its revision tells.                                              *)
LEMMA UpdateEvidence ==
  ASSUME RunTypeInv, NEW next \in Row, CanUpdateCampaign(next),
         campaign' = next, active' = active
  PROVE  EvidenceStep
  <1> USE DEF EvidenceStep, CampaignOfTheRun!EvidenceNext
  <1>1. next.revision = campaign.revision + 1
    BY DEF CanUpdateCampaign, RunTypeInv, SimulationTypeOK
  <1>2. next.state = "running_simulation" =>
          ~active /\ campaign.state # "running_simulation"
    <2>1. "running_simulation" \notin AllowedTransitions["running_simulation"]
      BY DEF AllowedTransitions
    <2> QED
      BY <2>1 DEF CanUpdateCampaign, StoreAllows, Bound, Unsafe
  <1>3. CASE next.state = "running_simulation"
    <2>1. CampaignOfTheRun!GoLive
      BY <1>1, <1>2, <1>3 DEF CampaignOfTheRun!GoLive
    <2> QED
      BY <2>1
  <1>4. CASE /\ campaign.state = "running_simulation"
             /\ next.state # "running_simulation"
    <2>1. CampaignOfTheRun!Interrupt
      BY <1>1, <1>4 DEF CampaignOfTheRun!Interrupt
    <2> QED
      BY <2>1
  <1>5. CASE /\ campaign.state # "running_simulation"
             /\ next.state # "running_simulation"
    <2>1. CampaignOfTheRun!Bump
      BY <1>1, <1>5 DEF CampaignOfTheRun!Bump
    <2> QED
      BY <2>1
  <1> QED
    BY <1>3, <1>4, <1>5

LEMMA RunStepEvidence ==
  ASSUME RunTypeInv, RunStep
  PROVE  EvidenceStep
  <1> USE DEF databaseVars, CampaignOfTheRun!evidence
  <1>1. CASE \/ ValidateEvidence \/ Await \/ EnsureOperatorEnrolled
             \/ AssertNotKilled \/ InsertRecord
             \/ InsertUnlessKilled \/ InsertOwnedObject \/ AssertOwnedObject
             \/ CreateSimulationObject \/ DriftDemoPolicy \/ CompleteRun
             \/ RunThrows \/ CatchSwitchActive \/ CatchSwitchClear
             \/ CatchEnd
    <2>1. UNCHANGED <<active, campaign>>
      BY <1>1
      DEF ValidateEvidence, Await, EnsureOperatorEnrolled, AssertNotKilled,
          InsertRecord, InsertUnlessKilled, InsertOwnedObject, AssertOwnedObject,
          CreateSimulationObject, DriftDemoPolicy, CompleteRun, RunThrows,
          CatchSwitchActive, CatchSwitchClear, CatchEnd
    <2> QED
      BY <2>1 DEF EvidenceStep, KeepsEvidence
  <1>2. CASE ClearForRun
    BY <1>2, ClearEvidence DEF ClearForRun
  <1>3. CASE InsertCampaign
    <2>1. /\ active' = active
          /\ campaign.state = "absent" /\ campaign.revision = 0
          /\ campaign'.state = "draft" /\ campaign'.revision = 0
      BY <1>3 DEF InsertCampaign, NoCampaign, MakeCampaign
    <2> QED
      BY <2>1 DEF EvidenceStep, KeepsEvidence
  <1>4. ASSUME NEW event \in {"request_approval", "approve",
                              "start_simulation", "policy_drift"},
               AdvanceCampaign(event)
        PROVE  EvidenceStep
    <2>1. PICK next \in Row :
            CanUpdateCampaign(next) /\ campaign' = next /\ active' = active
      BY <1>4, AdvancedRow DEF AdvanceCampaign, At
    <2> QED
      BY <2>1, UpdateEvidence
  <1>5. CASE Rebind
    <2>1. RebindCampaign(held, 2) \in Row
      BY DEF RunTypeInv, SimulationTypeOK, NoCampaign, Row, States, KillStatus,
             RebindCampaign
    <2> QED
      BY <1>5, <2>1, UpdateEvidence DEF Rebind
  <1>6. CASE CatchEngage
    BY <1>6
    DEF CatchEngage, EvidenceStep, CampaignOfTheRun!EvidenceNext,
        CampaignOfTheRun!EngageKill
  <1>7. CASE CatchPause
    BY <1>7, PauseEvidence DEF CatchPause
  <1> QED
    BY <1>1, <1>2, <1>3, <1>4, <1>5, <1>6, <1>7 DEF RunStep

LEMMA OtherStepEvidence ==
  ASSUME RunTypeInv, Interrupt \/ ProcessStep
  PROVE  EvidenceStep
  <1> USE DEF databaseVars, CampaignOfTheRun!evidence
  <1>1. CASE Engage \/ EngageAtStart
    BY <1>1
    DEF Engage, EngageAtStart, EvidenceStep, CampaignOfTheRun!EvidenceNext,
        CampaignOfTheRun!EngageKill
  <1>2. CASE PauseCampaigns \/ StartProcess
    BY <1>2, PauseEvidence DEF PauseCampaigns, StartProcess
  <1>3. CASE ClearKillSwitch
    BY <1>3, ClearEvidence DEF ClearKillSwitch
  <1>4. CASE StartRun \/ ImportProgram \/ DecideApproval \/ CrashProcess
    <2>1. UNCHANGED <<active, campaign>>
      BY <1>4 DEF StartRun, ImportProgram, DecideApproval, CrashProcess
    <2> QED
      BY <2>1 DEF EvidenceStep, KeepsEvidence
  <1> QED
    BY <1>1, <1>2, <1>3, <1>4 DEF Interrupt, Others, ProcessStep

(* The campaign of the run, with the switch, behaves as CampaignEvidence    *)
(* says, through starts, throws, crashes and other processes (run,          *)
(* updateCampaign, setKillSwitch, clearKillSwitch).                         *)
THEOREM Refinement == Spec => ImplementsCampaignEvidence
  <1>1. Init => CampaignOfTheRun!EvidenceInit
    BY DEF Init, SimulationInit, NoCampaign, CampaignOfTheRun!EvidenceInit
  <1>2. ApplicationInv /\ [Next]_vars
          => [CampaignOfTheRun!EvidenceNext]_(CampaignOfTheRun!evidence)
    <2> SUFFICES ASSUME ApplicationInv, [Next]_vars
                 PROVE  EvidenceStep
      BY DEF EvidenceStep, KeepsEvidence
    <2>1. CASE UNCHANGED simulationVars
      BY <2>1
      DEF EvidenceStep, KeepsEvidence, CampaignOfTheRun!evidence,
          simulationVars, databaseVars
    <2>2. CASE RunStep \/ Interrupt \/ ProcessStep
      BY <2>2, RunStepEvidence, OtherStepEvidence DEF ApplicationInv, RunInv
    <2> QED
      BY <2>1, <2>2, StepsOfTheApplication DEF vars
  <1> QED
    BY <1>1, <1>2, ApplicationInvHolds, PTL
    DEF Spec, ImplementsCampaignEvidence, CampaignOfTheRun!EvidenceSpec
=============================================================================
