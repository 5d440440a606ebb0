# Verification of the control plane

TLA+ specifications, TLC configurations and TLAPS proofs for the program in
`packages/`: a local tool in which a human operator approves policies,
campaigns and single actions before anything is simulated, and can stop
everything with a persistent kill switch. The program performs no external
action; what the specifications are about is the machinery that decides whether
one may be simulated, and the files and database rows that machinery lives in.

Lines below are `file:line` of the repository. German terms in the
documentation are quoted as they stand.

## 1. Inventory

| Part | State | Operations | Interacts with |
|---|---|---|---|
| Control plane (`control-plane/store.ts`, `campaign-machine.ts`) | SQLite rows: programs, policy versions and acceptances, campaigns, identities, owned objects, approvals, signed statements, kill switch, audit | add/accept policy, insert/update campaign, persist/decide approval, engage/clear switch, reconcile at start | shared by every process that opens the file: dashboard, CLI, simulation |
| Database (`control-plane/database.ts`) | connection, transaction depth, poisoned flag, schema version | outer and nested transaction, migrate, open | one file, `BEGIN IMMEDIATE`, one second busy timeout |
| External-action store (`control-plane/external-action-store.ts`) | approval bindings, attempts | create approval, reserve, start, abort, settle | reads campaign, policy, approval, identity and ownership through the store |
| Pipeline (`external-actions/pipeline.ts`) | kill-switch latch per process, position of each `execute()` | execute, monitor (timer), prepare and enqueue | the store above, a runner that answers later or never |
| Orchestrator (`simulation/orchestrator.ts`) | the campaign row it last read, the review it showed, the event-key lifecycle it opened | one scripted run of some eighty calls, with a catch that engages the switch | store, demo SaaS, event-key lifecycle, account simulation, ownership ledger |
| Identity machine, approval queue, policy import | values only | pure transitions | store |
| Operator authentication (`operator-auth/`) | the key in a signer, the session id of a process | sign, verify | store: credential, signed statements, decisions, clears |
| Audit log (`audit-log/audit.ts`) | the log file, the lock file | append, verify, recover a stale lock | several processes on one file |
| Event-key lifecycle, event store (`event-key-lifecycle/`, `event-store/`) | chain of state records, lock with a token, encrypted event files | initialise, adopt, open, read, write, rotate, recover | several processes on one directory; a serialising queue per instance |
| Local product (`local-product/workflow.ts`) | one in-memory workflow: step, revision, program, campaign, journey, report | guided actions in order, management actions beside them | dashboard server, one request at a time; bound to the demo SaaS and the readiness of its process |
| Account simulation, ownership ledger, platform adapters, scope monitor | values in memory | fixed sequences and comparisons | orchestrator |
| Dashboard server and runtime (`dashboard/server.ts`, `apps/dashboard/runtime.ts`, `local-runtime/readiness.ts`) | whether a simulation runs, its last summary, the readiness of this start | start (engages the switch), POST routes for product, simulation, switch, approvals, import | all of the above, and other processes through the database |
| Demo SaaS (`demo-saas/domain.ts`) | test objects, policy versions, in memory | create objects, simulate a policy drift | product (bound to its snapshot), orchestrator (changes it) |
| CLIs, configuration, egress guard, redaction, recorder, policy engine, journey catalog | none or request-local | transport, parsing, normalisation | all of the above |

What is hard here is not in any one function:

* **Several processes, one database.** Every transaction is atomic, but calls
  are made of several: `setKillSwitch` commits three times (store.ts:1188, 1213,
  1223), `addPolicyVersion`, `insertCampaign` and `advanceCampaign` read before
  their transaction begins. Another process, a crash or a failed commit comes
  between.
* **A kill switch that may be engaged and cleared between any two steps** of a
  pipeline that holds an authorization read earlier.
* **Answers that come late**: a runner that answers after the monitor gave up,
  or never.
* **Awaits inside one process.** A simulation awaits event keys, mock accounts,
  the ledger and encrypted events; only there do other requests of the same
  process come in, while other processes come in anywhere.
* **Two copies of one truth**: the product checks an action with one set of
  conditions and offers it with another; it copies hashes and budgets from one
  snapshot into the next; it describes a demo application that the simulation
  changes.
* **Crashes**: an attempt left reserved or running, a record written half, a
  lock whose owner is gone and whose pid lives again.
* **Time**: windows closed on one side, a clock that is set back.

What makes each part correct:

* campaigns: what can execute is bound to the current accepted policy and to a
  human decision for that campaign; nothing is carried over a clear; no update
  is lost;
* kill switch: an engagement pauses everything in the end; a clear is signed for
  one engagement and works once;
* attempts: one slot, one runner, one launch per proposal, no success across an
  interruption, the budgets of the contract;
* audit log: exclusive lease, one chain, nothing written after a torn line;
* event keys: records form one chain, the active version grows by one, no event
  is written with a version that is not readable, recovery removes nothing a
  living writer still needs;
* local product: what is offered is carried out, campaign and journey halt
  together, the snapshots keep agreeing with what they were copied from, and
  nothing moves after the demo has;
* simulation: an engaged switch stops it, whichever step it meets, and a failed
  run leaves no campaign in force;
* operator statements: one key and one decision, accepted only inside the
  session and the time window they were signed for, and evidence that keeps
  verifying once it is on record.

## 2. Modules

```
CampaignMachine          pure: a row and an event in, a row out
   ^
ControlPlane ----------- implements (per campaign) --> CampaignEvidence <-- implements -- Dashboard
   ^        ^                                               ^
   |  ControlPlaneProofs                                    | environment
ControlPlaneHistory                                         |
                                                     ExternalActions -- implements --> AttemptLifecycle
                                                            ^
                                                     ExternalActionsProofs
AuditLog <-- AuditLogProofs
EventKeyLifecycle -- implements --> KeyChain
   ^
EventKeyLifecycleProofs
OperatorStatements <-- OperatorStatementsProofs
LocalRuntime   DemoSaas     CampaignMachine
      ^        ^      ^        ^
      LocalProduct    SimulationRun
        ^      ^      ^
        |      Dashboard
LocalProductProofs    ^
               ^      |
            DashboardProofs
MCControlPlane, MCControlPlaneHistory, MCExternalActions, MCAuditLog,
MCEventKeyLifecycle, MCOperatorStatements, MCLocalProduct, MCDashboard:
instances for TLC
```

**CampaignMachine** translates `transitionCampaign` and the store's own
transition table. A row keeps state, revision, policy version (with its hash and
contract), the human decision that approved it, and the kill status written into
it. Validity window, assets and configuration are one boolean of the context.

**ControlPlane** is the database of one program shared by `Procs`. One
transaction is one action; a call that is more than that leaves in `pc`, `read`
and `draft` what it has read and still has to write:

| Code | Actions |
|---|---|
| `addPolicyVersion` | `AddPolicyRead`, `AddPolicyVersion` (pauses active campaigns of other versions) |
| `persistApproval`, `decideApproval`, `acceptPolicy` | `PersistPolicyApproval`, `DecidePolicyApproval`, `AcceptPolicy`; for campaigns `PersistCampaignApproval`, `DecideCampaignApproval` |
| `insertCampaign` | `InsertCheck`, `InsertCampaign` |
| `advanceCampaign` + `updateCampaign` | `PrepareTransition`, `UpdateCampaign` |
| `rebindCampaign` + `updateCampaign` | `PrepareRebind`, `UpdateCampaign` |
| `setKillSwitch(true)` | `Engage`, `EngagePause`, `EngageAudit`, or `AuditRefused`, `EngagementFails`, `Crash` |
| `describeKillSwitchClear`, `clearKillSwitch` | `SignClear`, `ClearKillSwitch` |
| constructor (`reconcileKillSwitchSafety`) | `Restart` after a crash, `Reopen` of another store on the same file |
| any single-transaction call that fails | `Abandon`: nothing is left behind. A call may be abandoned although it could succeed, which covers every refusal and a busy database |

`acceptedPolicyVersion` is an argument of the machine that callers choose, so
`PrepareTransition` tries every version; what is stored is decided by
`BindingsHold`. `approvedUnder` is a ghost.

**CampaignEvidence** is what other parts may assume about one campaign and the
switch: a campaign goes live only while the switch is clear, every interruption
uses up its revision, and no clear leaves a live campaign behind. `ControlPlane`
implements it for each campaign (`ImplementsCampaignEvidence`), and
`ExternalActions` uses its steps as environment. That is how the two large
models compose without the product of their states.

**ExternalActions** is `ExternalActionPipeline.execute` over the attempts table.
A pipe is one call; the calls of several processes and of one process are the
same thing, because nothing but the latch is shared in memory. The latch is kept
per pipe, which allows more than one latch shared by a process does. Each
transaction is one action: `CreateApproval`, `DecideApproval`,
`AuthorizeAndReserve`, `StartAttempt`, `SettleSucceeded`, `SettleUnsuccessful`,
`AbortReservation`. The check of the switch that precedes a transaction is
folded into it, as an alternative that sees the switch active and takes the
error path (`StartDenied`, `LaunchKilled`, `FinishKilled`). That loses no
behaviour: a check that passed just before the switch was engaged is followed by
a transaction that reads the switch again (reserve, start, settle), and the
launch has no other effect than the runner's. `MonitorTick` is the
five-millisecond timer, `RunnerAnswers` the runner, `BusyCheck` and
`BusyTransaction` a database that cannot be read or locked, `Crash` the death of
a process. The timestamp of a call is taken before its transaction is begun;
`ClockSetBack` covers a transaction whose time is older than the row it reads.
`prepareStoreBoundExternalActionProposal` reads a context that `createApproval`
reads again and compares, so the two are one action.

**AttemptLifecycle** is the promise: one attempt holds the slot, a proposal is
attempted once, a runner is launched once and only while its attempt runs.

**AuditLog** is the log file and its lock file, with an action for each file
operation another process can come between: create the lock, record the owner,
read and verify, write, compare for release, unlink; for recovery: open, verify,
compare again, unlink. A process is its pid, so `Restart` is also a pid that is
used again. `CreationFails` leaves a lock without (or with) an owner; `Crash` in
a write leaves half a line.

**EventKeyLifecycle** is the directory of one event store: the lock file, the
chain of state records, the event files and the temporary files of their
writers. A process is its pid and runs one operation at a time, as `serialize`
makes every instance do.

| Code | Actions |
|---|---|
| `openOrInitializeFresh` | `FindFresh`, then `CreateLock` for an initialisation, or `FreshLocked`, `ReportLocked` |
| `acquireMutationLease` | `CreateLock`, `RecordOwner`, or `CreationFails` |
| `initializeFreshNormalized`, `adoptLegacyV1`, `rotate` | `Verify` (`MayCommit`), `LinkRecord` |
| `write` and `EncryptedEventStore.write` | `Verify`, `StageEvent`, `LinkEvent` or `LinkFails`, `UnstageEvent` or `UnstageFails` |
| `releaseMutationLease` | `ReleaseCheck`, `ReleaseUnlink`, or `ReleaseFails` |
| `recoverStaleMutation` | `AdoptLock` (or `CreateLock`), `RemoveTemp` per file, `RecoverVerify`, or `RecoverFails`, which leaves the lock |
| `read` | `ReadScan`, `ReadParse`, `ReadEvent` |
| any error of a mutation before its commit | `OperationFails`, which still releases |

A token is the number of the lock file. A state record keeps its store and its
operation; revision, active version and the hash of the record before it follow
from its place, because a record is linked to the file name of its revision.
What the code reads and compares again under the lease (the scan of the
directory, the chain) is one `Verify`: the lease is compared before every write,
but the compared file cannot change while it is held, which is the first theorem.
`FindFresh` looks for state records only, as the code does when the
state directory is missing: events without a chain are then found under the
lease. Keys, minimum versions, file modes and the size limits do nothing but
fail. A temporary state record is tolerated by every scan and is left out; the
temporary file of an event is not, and is kept under the token in its name.

**KeyChain** is the promise: the first record fits the events that are there
(`initialize` without any, `adopt_legacy_v1` with some), every further one
rotates the same store to the next version, and an event is written once, under
the version that is active at that moment. Every crash, retry, recovery and read
is a stutter of it.

**OperatorStatements** is the other half of the store: what ControlPlane takes
for granted when it says that a decision or a clear is signed. Several processes,
each with a session and with the key its secret store gave it, work on one
database and one clock that may be set back.

| Code | Actions |
|---|---|
| `ensureOperatorEnrolled`, then `enrollLocalOperator` or `authenticateLocalOperatorSession` | `EnsureOperatorEnrolled` (reads the credential and signs), `EnrollLocalOperator`, `AuthenticateLocalOperatorSession` |
| `persistApproval`; `describeApprovalDecision` and the signature; `decideApproval` | `PersistApproval`, `SignApprovalDecision`, `DecideApproval` |
| `setKillSwitch(true)`; `describeKillSwitchClear` and the signature; `clearKillSwitch` | `Engage` (first commit), `SignKillSwitchClear`, `ClearKillSwitch` |
| any of them throws | `Fail` |
| `isKillSwitchActive`, `requireAuthenticatedApprovalDecision` | the operators `KillActive`, `DecisionAuthenticated`, which verify stored evidence anew at its own time |

A statement is the record of its fields, so that its digest is itself and a
signature is the key in it. Sessions may renew: several proofs of one session are
then on record, and each of them is verified by itself.

**LocalRuntime**, **DemoSaas** are pure: an environment and the readiness derived
from it; a demo application and its two operations that the program calls.

**LocalProduct** is `LocalProductWorkflow.perform`. Each of the twenty-one guided
actions is an action over `Guided`, which holds what `perform` does around the
`switch` (order, runtime gate, clock, prerequisites, step and revision); each
management action is one over `Managed`. `AvailableManagementActions` is the
second copy of the conditions, written to be shown. A snapshot keeps the fields
another action or check reads: statuses, revisions, the hash of the policy (the
choices it is made of), the budget, the bundle.

**SimulationRun** is `SimulationOrchestrator.run`. `Script` lists its calls in
order; `step` is the next one, and one action carries out the steps of one kind:
`InsertRecord` the plain inserts, `InsertUnlessKilled` those a switch refuses,
`EnsureOperatorEnrolled` the operator's session, which the run commits before its
clear and before each decision without looking at the switch, `AdvanceCampaign` and
`Rebind` the campaign, `AssertNotKilled` every `recordStep` and `assertNotKilled`,
`Await` and the events the awaited calls. `RunThrows`
stands for every error; the catch is `CatchSwitchActive`, `CatchSwitchClear`,
`CatchEngage`, `CatchPause` and `CatchEnd`, commit by commit. `LoopIsFree` says
when another handler of the same process may run. The campaign moves by the
operators of **CampaignMachine**, the same as in ControlPlane. A start engages
the switch in one commit (`EngageAtStart`) and pauses the campaigns in another
(`StartProcess`, with everything up to the listening dashboard). `unpaused` says
that somebody else's engagement still owes its pause; no clear takes that away, so
a late pause may meet a switch that is clear again. `lost` and `late` are ghosts. The run is written a second time over an abstract store, and
not over ControlPlane; that its campaign and its switch behave as
`CampaignEvidence` says (`Refinement` of DashboardProofs) is what keeps the two
from drifting apart.

**Dashboard** composes the two on one demo application: `StartLocalApplication`,
`Crash`, `LocalProductAction` with `RuntimePreconditions`, `SimulationRoutes`,
`SwitchRoutes` (which are other processes as well) and `Run`.

## 3. Runs

| Run | Instance | What it shows |
|---|---|---|
| `control_plane_kill` | 2 processes, 1 campaign, 1 decision, 1 policy, switch up to revision 4, campaign updates up to revision 5 | `TypeOK`, `NoCampaignSurvivesAClear`, `AuditedEngagementIsPaused`, `SignedClearIsUsedOnce`, and, fair, `EngagedCampaignGetsPaused`; about 660 000 states |
| `control_plane_policy` | 2 processes, 2 policies, switch 2, updates 4 | `ActiveCampaignUsesCurrentPolicy`, `NoLostUpdate`, `StaleOpenCampaignFrozen`, `ImplementsCampaignEvidence`; about 400 000 states |
| `control_plane_reuse` | 1 process | **violated**: `FreshCampaignApproval`, see section 6 |
| `external_actions_races` | 3 proposals, 2 pipes, campaign revision 4, no clock | `TypeOK`, `AtMostOneActive`, `OneRunnerAtATime`, `RunnerAtMostOnce`, `SuccessUninterrupted`, `ImplementsAttemptLifecycle`; about 350 000 states |
| `external_actions_rate` | 2 proposals, 1 pipe, clock 0 to 3, window 1, one per minute | `RateRespected`, and, fair, `EngagedSwitchSettlesAttempts`; about 890 000 states |
| `external_actions_busy` | 1 proposal, 1 pipe, no crash | **violated**: `HandledErrorIsSettled`, see section 6 |
| `audit_log_recovery` | 3 processes, one recovers, 3 entries, 7 lock files | `TypeOK`, `MutualExclusion`, `ChainIntact`, `LiveOwnerKeepsLease`, `TornLogIsSealed`; about 3 000 states |
| `event_key_recovery` | 3 processes, one recovers, 2 events, 3 versions, 5 lock files | `TypeOK`, `LeaseIsExclusive`, `EventsStayReadable`, `ImplementsKeyChain`, `OrphanBlocksMutations`, `RecoverySparesWriters`, `AbandonedLockBlocks`; about 670 000 states |
| `operator_statements` | 2 processes, 2 keys, 1 approval, lifetime 1, clock 0 to 1 and back, switch 3, 6 statements | `TypeOK`, `ClearDoesNotDecay`, `DecisionsStayAuthenticated`, `OneKeyForever`, `VerificationTimesFollowEvents`; about 1 160 000 states |
| `local_product` | all 36 environments, every choice with two values | `OfferedActionsApply`, `SnapshotsAgree`; about 52 000 states |
| `dashboard` | 4 environments, one value per choice of the product, the whole script, crashes and restarts | `TypeOK`, `EngagedSwitchStopsRun`, `CampaignInForceHasARun`, `DriftFreezesProduct`; about 2 300 000 states |
| `event_key_init_race` | the same instance | **violated**: `InitializationRaceIsDecided`, see section 6 |

Deadlock is checked in every run: there is always a process that can restart,
reopen or be told to do something else.

**Bounds.** `MaxKill`, `MaxPolicy`, `MaxRevision`, `MaxTime`, `MaxLocks` are
guards of the actions that count; everything else is bounded by the code
(`MaxActions`, `MaxRequests`, `PerMinute`, `MaxEntries`). They are large enough
for the interesting cases: switch revision 4 from a switch that starts engaged
at 0 allows clear, engage, clear, engage, so that a clear or an audit of the
first engagement meets the second; campaign revision 5 (the bound is on what is
updated, so 6 is reached) allows request, approve, start, pause, resume and a
second approve; two policies allow a rebind; three proposals allow one attempt
to be active, one settled and one waiting; campaign revision 4 in the pipeline
allows a campaign to go live, be paused and go live again under a proposal that
binds the first revision; the clock of the rate run goes once past the window
and back. Two processes are enough because every conflict in the code is between
one call and the state that another call left; the third process of the audit
log and of the event store is the one that recovers. Five lock files allow an
initialisation, a write that crashes, its recovery, a rotation and one more write;
three versions allow two rotations around a reader.
In the statements run a lifetime of 1 and a clock of two readings put a window
before, around and after every other event, because the clock goes back as well;
six statements are two proofs, a renewal, a decision and two clears, and switch
revision 3 is a clear, an engagement and a second clear. The dashboard run walks the
whole script once: a second run meets the records of the first at its first
insert, with or without a crash between. Two test objects are the capacity the
run needs; the fixture fills one place.
Symmetry is used for safety only, over processes (apart from the recovering one),
proposals, pipes and event ids, which no action orders.

**Fairness.** `control_plane_kill`: `EngagePause` (the second commit follows the
first without an await) and `Restart` (a process that died in an engagement is
started again, and its constructor reconciles). The failure of a commit is left
out of `ReliableNext`, because no code retries it. `external_actions_rate`: the
steps `execute()` takes without waiting for anything, and the monitor's timer;
no fairness for the runner, no crash and no busy database, after which nothing in
the code settles the attempt. The timer is unreferenced (pipeline.ts:262), so
this also assumes a process that stays alive. Both are weak fairness.

## 4. Properties

Each property is stated in its module in front of its definition. The ones a
reader might not expect:

* `NoCampaignSurvivesAClear` holds although a process can die between the
  engagement and the pause: `clearKillSwitch` pauses again, in its own
  transaction. The mutant without that line breaks it.
* `SuccessUninterrupted` is about an interruption that has been undone. The
  switch may be engaged and cleared and the campaign paused, approved and started
  again while the runner works; the settlement then sees a clear switch and a
  running campaign, and it is only the bound revision that gives the
  interruption away.
* `OneRunnerAtATime` needs the row in the database to outlive every path out of
  `execute()`.
* `StaleOpenCampaignFrozen` states what the code does rather than what one may
  wish: a draft or waiting campaign whose policy was superseded can be neither
  read nor written, hence not cancelled either.
* `TornLogIsSealed`: neither append nor recovery repairs an incomplete last line.
* `OrphanBlocksMutations`: one temporary event file that nobody works on stops
  every commit and every write of every process, until a recovery.
* `AbandonedLockBlocks` is the other side: a process that dies before its owner
  or the first state record is written leaves a lock that recovery refuses, so
  that the directory stays blocked.
* `EventsStayReadable` holds although a read takes no lock: the version of an
  event never exceeds the length of the chain, and the chain is read afterwards.

* `ClearDoesNotDecay`: whether the switch is active is computed from evidence on
  every call. The evidence is verified at the time it was stored with, so that
  neither the end of a session nor its renewal engages the switch by itself. It
  is the quantifier over all proofs of the session that keeps it so; the mutant
  consults the newest proof only.
* `VerificationTimesFollowEvents` is why the clock may be set back at all: no
  statement is stored with a time before the newest stored one.
* `OfferedActionsApply` compares the two copies of the conditions in every
  reachable product, and says that no guided action fails after the clock was
  read.
* `EngagedSwitchStopsRun` counts what a run still writes after the switch was
  engaged. The bound is three: between the check after the acceptance of the
  second policy (orchestrator.ts:474) and the refused decision, the run rebinds its
  campaign, asks for an approval and commits a session statement. The last of these
  is a transaction of its own that `decideApproval` starts before the switch is
  looked at (orchestrator.ts:631, store.ts:289-319). TLC finds a bound of two
  violated at exactly that place. An event, with its files, counts as one write.
* `CampaignInForceHasARun`: only the catch of `run` keeps a failed simulation from
  leaving a running campaign under a clear switch.
* `DriftFreezesProduct`: a simulation that has changed the demo ends the guided
  product of the same process for good; only a restart makes a new one.

Every property has a mutant, an operator defined just before the one it
replaces, which changes it the way a plausible slip would; TLC finds the
property violated with it.

## 5. Proofs

TLAPS proves, for all values of the constants under the named assumptions, every
safety invariant, action property and refinement that the passing runs check:

| Theorem | Statement |
|---|---|
| `TypeCorrect`, `SlotIsExclusive`, `RunnersExcludeEachOther`, `RunnerLaunchedOnce`, `SuccessWasUninterrupted` (ExternalActionsProofs) | `Spec => []P` for `TypeOK`, `AtMostOneActive`, `OneRunnerAtATime`, `RunnerAtMostOnce`, `SuccessUninterrupted` |
| `RateIsRespected`, `BudgetsAreRespected` (ExternalActionsProofs) | `Spec => []RateRespected`; the attempts never outnumber `MaxActions` or `MaxRequests` |
| `Refinement` (ExternalActionsProofs) | `Spec => ImplementsAttemptLifecycle` |
| `TypeCorrect`, `ActiveCampaignsAreCurrent`, `ClearsStartAfresh`, `AuditsAreHonest`, `ClearsAreUsedOnce` (ControlPlaneProofs) | `Spec => []P` for `TypeOK`, `ActiveCampaignUsesCurrentPolicy`, `NoCampaignSurvivesAClear`, `AuditedEngagementIsPaused`, `SignedClearIsUsedOnce` |
| `UpdatesAreKept`, `StaleCampaignsAreFrozen` (ControlPlaneProofs) | `Spec => P` for the action properties `NoLostUpdate`, `StaleOpenCampaignFrozen` |
| `Refinement` (ControlPlaneProofs) | `Spec => ImplementsCampaignEvidence`, for each campaign |
| `LeaseIsExclusive`, `OwnerIsNeverRobbed` (AuditLogProofs) | `Spec => []MutualExclusion`, `Spec => LiveOwnerKeepsLease`, if at most one process recovers |
| `TypeCorrect`, `RecordsAreChained`, `TornLogStaysSealed` (AuditLogProofs) | `Spec => []TypeOK`, `Spec => []ChainIntact`, `Spec => TornLogIsSealed`, likewise |
| `TypeCorrect`, `HolderIsAlone`, `ReadersKeepUp` (EventKeyLifecycleProofs) | `Spec => []P` for `TypeOK`, `LeaseIsExclusive`, `EventsStayReadable`, if at most one process recovers |
| `OrphanStopsCommits`, `WritersAreSpared`, `AbandonedLockStays` (EventKeyLifecycleProofs) | `Spec => P` for the action properties `OrphanBlocksMutations`, `RecoverySparesWriters`, `AbandonedLockBlocks`, likewise |
| `Refinement` (EventKeyLifecycleProofs) | `Spec => ImplementsKeyChain`, likewise |
| `TypeCorrect`, `ClearsDoNotDecay`, `DecisionsReverify`, `OneKeyEnrolled`, `ClearTimesFollowRevisions` (OperatorStatementsProofs) | `Spec => []P` for `TypeOK`, `ClearDoesNotDecay`, `DecisionsStayAuthenticated`, `OneKeyForever`, `VerificationTimesFollowEvents` |
| `OffersApply`, `SnapshotsStayTogether`, `TypesHold` (LocalProductProofs) | `LocalProductSpec => []P` for `OfferedActionsApply`, `SnapshotsAgree`, `LocalProductTypeOK` |
| `TypeCorrect`, `RunsAreStopped`, `CampaignsHaveRuns`, `DriftFreezes` (DashboardProofs) | `Spec => []P` for `TypeOK`, `EngagedSwitchStopsRun`, `CampaignInForceHasARun`, and `Spec => DriftFreezesProduct` |
| `Refinement` (DashboardProofs) | `Spec => ImplementsCampaignEvidence`, for the campaign of the run |
| `ProductStaysTogether` (DashboardProofs) | the two properties of the product, of the whole application |

The assumptions are those the modules name: the bounds are natural numbers, the
values that stand for "none" are not among the others, the name a product starts
with is one of its names, and the two decisions that the script of a simulation
takes are decisions (`ScriptDecisionsAssumption`). `OneRecoverer` is a hypothesis of
the theorems that need it.

*Control plane.* A call reads before its transaction begins, so an invariant
about rows alone says nothing about what a call is about to write. `DraftInv` does: a
row to be inserted is a draft of revision 0, and a row to be updated is one revision
past the row that was read. With `CanUpdate`, which compares that revision, and
`BindingsHold`, which looks at policy, acceptance, decision and switch again, an
update keeps `ActiveCampaignUsesCurrentPolicy` whatever the call had read.
`ClearsInv` (a clear on record is about a revision that has passed) makes a
signed clear usable once: nothing makes the switch clear again at an old revision.
`EngagementInv` ties the second and third commit of an engagement to the first:
one that is about to write its audit has paused every campaign unless the switch has
moved on, and then the audit is not linked. `RowSteps` says what a step may do to one row
(pause, insert or update it, or nothing); the two action properties and the
refinement follow from it case by case. The refinement closes a gap: the
pipeline's theorems take the steps of `CampaignEvidence` as their environment, and
now the control plane is known to take no others.

*Budgets.* `BudgetInv` says that the set of attempts is finite and smaller than both
budgets, and that each window of a minute holds no more than the rate. A reservation
adds one attempt; it is refused if the attempts it finds in the minute before it reach
the rate, or if one lies in its future. So a new attempt is the latest of every
window it is in, and the window of an older one either does not reach it, or is
part of the minute that was counted.

*Pipeline.* Most of the five invariants are not inductive as they stand.
The invariant `Inv` adds: a pipe past its reservation has its proposal's attempt in
the status its place calls for (`HolderInv`); no two pipes hold a reservation
(`OneHolder`); a pipe about to launch has a runner that has not run, one past
the launch a runner that ran once (`RunnerInv`); an attempt was reserved under
an accepted binding, and a bound revision has been reached and is the current
one only while the campaign is live (`BindingInv`); and an interrupted attempt
that is still active binds a revision the campaign has left, or the switch is
still active (`InterruptionInv`). The last part is
where `CampaignEvidence` enters: an interruption uses up the live revision, so
`ContextMatches` is false for it from then on. `OneRunnerAtATime` follows from
`OneHolder`, which a reservation preserves because by `HolderInv` and the slot
nobody holds one when it is made. The proof has a lemma for each group of actions and
for each the conjuncts it can disturb. `Refinement` maps the status of each
attempt and the launch count, and uses `RunnerInv` for the launch and the
outcome.

*Audit log.* `Inv` says that a leased process has the file at the lock path
open, with its own owner in it once recorded (`OwnerInv`); that a recovery knows
the owner its file will always record (`RecoveryInv`); and that nobody is leased
while a recovery is about to unlink (`RemovalInv`). The step that carries the
argument is `RecoverRecheck`: the lock still names the file the recovery opened,
its owner is dead, and a leased process would have to be that owner or an
unrecorded one. It is preserved because a lock path that is taken cannot be
created, and because only the one recovery unlinks a file it does not own.
`ChainIntact` and `TornLogIsSealed` need one part more, `HeadInv`: what an append has
verified under the lease (the log's length, the hash of its last record, that no
line is torn) is still so when it writes. Exclusion is what preserves it, so
these two theorems rest on the first.

*Event keys.* `LeaseIsExclusive` is not inductive: nothing in it says that the
lock file belongs to who is inside. `HolderInv` does: its token is in the file, and
the owner recorded there is itself or, for a recovery, the dead process
it followed. From that, `DeadLockIsFree` shows that a lock whose owner is down is
held by nobody: its holder would be that owner or another recovery, and this is
where `OneRecoverer` is used. What a holder has verified then stays so until it
commits: `HeadInv` keeps the head and the condition of the commit, `TempInv` the
absence of temporary files other than its own, `ChainInv` the one store of the
records, `EventInv` and `ReaderInv` the versions of events, `RecoverInv` that a
recovery releases only a directory with a state record. `Refinement` and the
three action properties follow step by step: `WhoWrites` shows that only
`LinkRecord` and `LinkEvent` change what `KeyChain` sees, and the invariant gives
their abstract guards.

*Signed statements.* `Inv` ties the record to the rows beside it: an approval's
row agrees with every decision on record (`DecisionInv`), so an open approval has
none and a second decision finds it closed; a clear on record names a revision
the switch has left (`ClearInv`), so a new clear is later in revision than all
others and, by `ObserveOperatorTime`, no earlier in time; and a process enrols or
authenticates with a proof and nothing else (`HeldInv`). The rest is persistence:
`AuthenticatedStays` says that a session once authenticated at a time stays
authenticated at that time, because statements are only added and any proof of
the session will do; hence `ClearStays` and `DecisionStays`, which no clock enters.
Only enrolment changes the credential. Then `NothingBeforeEnrollment` (from
`OneKeyForever` and `NoKey \notin Keys`) shows that nothing is on record, and the
enrolment's own check that the switch is active that no clear depends on it.

*Local product.* The two properties compare snapshots, so they cannot be shown of
one action at a time: what `createReport` copies is right because of what
`openEvidence` left, some steps before. `Inv` describes the product at each
of the twenty-one steps of the guide while nothing has been halted (`Shape`: which
snapshots are there, and with which status), says that a halted product is
`HaltsTogether`, and carries the lineage of hashes and bundles. The step number
decides which guided action is next (`StepIsKnown`), so each action starts from one
known shape; a management action is allowed in a few of them. `OffersArePermissions`
shows that the two copies of the conditions agree in every state, not only in
reachable ones.

*Application.* `EngagedSwitchStopsRun` needs to know how much can have
happened at each place in the script. `Unseen(i)` counts the effects since the last
step an engaged switch refuses (none to three), and `LateInv` bounds `late` by
it; `UnseenSteps` checks the table against the script, once for all 69 steps. The
clear of the run itself ends an engagement and starts the count anew.
`InForceInv` follows a campaign through the places of the process: after a run, or
after its catch, a campaign in force under a clear switch comes from a completed or a
lost run only. It holds in `pause`, `audit` and `start` because a clear by somebody
else pauses in its own transaction. The product's invariant and the run's are
independent: the only step that changes both is a start or a crash. `Refinement` uses the
comparison of revisions: an update computed from a row that has been paused since
is refused, so an accepted one is one step of `CampaignEvidence`. No run checks this
refinement; its mapping and its statement stand in the proof module.

Only model-checked: the two liveness properties, `EngagedCampaignGetsPaused` and
`EngagedSwitchSettlesAttempts`, which rest on fairness and `ENABLED` and are beyond
this prover, and the three violations, which are counterexamples. Two kinds of
statement are not proved either: that a clear and an engagement always find a
process that can carry them out (`ENABLED` again), and anything about models with
two overlapping recoveries, where the properties do not hold.

## 6. What the specifications found

* **An approval survives its withdrawal** (`control_plane_reuse`). A pause
  clears the approval in the row, and the test
  `tests/unit/control-plane/campaign-machine.test.ts:93` says that a campaign
  which drifts "requires a fresh campaign approval". The store however asks for
  any accepted approval with the campaign's id, policy version and digest, and the
  digest leaves the revision out (campaign-machine.ts:34-47, store.ts:1541): after
  `resume_requested` the old decision approves the campaign again.
* **A caught error is not always settled** (`external_actions_busy`).
  `PHASE3_STORE_BOUND_EVALUATOR.md:205` says that an error the pipeline catches
  after a reservation is written as `aborted`; the write is tried once, and when
  it fails because the database is busy the attempt stays active and keeps the
  only slot, although no process died.
* **A lost initialisation race is an error** (`event_key_init_race`).
  `PHASE5_EVENT_KEY_LIFECYCLE.md:251-253` says that such a race ends in the one
  genesis commit or in a reload of the winner's state. The code reloads after
  `EVENT_KEY_STATE_EXISTS` and `EVENT_KEY_ROTATION_CONFLICT` only
  (lifecycle.ts:142-149); a process that finds the winner's lock file gets
  `EVENT_KEY_MUTATION_LOCKED` and is turned away. A second call succeeds once the
  winner has finished.
* **Two overlapping recoveries of an event store** are outside the properties as
  well. Both take over the same token (lifecycle.ts:278-281), and with two
  recovering processes TLC finds `LeaseIsExclusive`, `RecoverySparesWriters`,
  `OrphanBlocksMutations`, `AbandonedLockBlocks` and `ImplementsKeyChain` violated;
  `EventsStayReadable` still holds. `PHASE5_EVENT_KEY_LIFECYCLE.md:216` calls
  recovery an explicit offline step of an administrator.
* **Two overlapping recoveries of the audit log** are outside the properties.
  With `Recoverers <- MCTwoRecoverers` TLC shows that the second may unlink the
  lock that a new owner created after the first (compare, then unlink by path,
  audit.ts:192-194). `PHASE6_CONTROL_PLANE_RECOVERY.md` prescribes recovery as an
  offline step with the writers stopped, so the specification assumes one
  recovery at a time instead of calling this a defect.

* **Observations without a run**, seen while reading for the models. The summary
  of a simulation always says `running_simulation` (orchestrator.ts:537), although
  a switch that was engaged and cleared between its last steps has paused the row.
  A run that failed leaves its records behind; the next one fails at
  `createProgram`, while the dashboard still reports the core as ready. A process
  that dies in a run leaves a running campaign and a clear switch until it is
  started again, which engages the switch first; `CampaignInForceHasARun` exempts
  that interval.

## 7. Not modelled

Signatures, digests and canonical JSON are assumed to do what they promise.
Parsing, file modes and symbolic links, migrations, HTTP, rendering, redaction,
the configuration files and the egress rules are left out: they keep no state
over which steps interleave. `PROJECT.json` lists every component with its reason.

* Pure text and tables (policy text, imports, adapters, ranking, source compiler,
  proposal schema, journey catalogue) decide in one call; nothing else is between
  their input and their result.
* The identity machine is called by its unit test only; checkpoints and retirement
  of the account simulation, the retirement of objects and the encrypted journal of
  the ownership ledger likewise. What the simulation uses of them is in
  SimulationRun.
* Within the modelled parts: programs other than one; the evidence about
  identities and objects that the pipeline reads (constant there, inserts in
  SimulationRun); the validity window of a contract (a boolean); a poisoned
  connection, which refuses as a busy database does. In SimulationRun, the
  signatures and the audit of the switch are taken to succeed or to make the run
  fail; OperatorStatements and ControlPlane have them in detail.

## 8. Plan

1. **Numeric edge of the contract's validity**: the window is one boolean of the
   context; a model with its two readings (inclusive in campaign-machine.ts:228,
   exclusive in external-action-store.ts:457) would cover the one hazard that no
   property is about.
2. **More than one recovery**: what still holds of the audit log and of the event
   store when two recoveries overlap (`EventsStayReadable` does in TLC), proved without
   `OneRecoverer`.
3. **Proofs across modules**: lemmas about `CampaignMachine` that ControlPlaneProofs
   and DashboardProofs both need (a pause is one revision, a transition is a row)
   stated once.
