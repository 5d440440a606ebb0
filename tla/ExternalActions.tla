---------------------------- MODULE ExternalActions ----------------------------
(***************************************************************************)
(* Store-bound external actions: the execution pipeline of                  *)
(* packages/external-actions/pipeline.ts over the attempts and approval     *)
(* bindings of packages/control-plane/external-action-store.ts. A pipe is   *)
(* one call of execute(); several run at once, in one process or in many.   *)
(* Each transaction of the store is one action. The kill-switch check that  *)
(* the pipeline makes just before a transaction is folded into the action,  *)
(* as an alternative that sees the switch active and takes the error path.  *)
(*                                                                         *)
(* The campaign and the kill switch are the environment: they change by the *)
(* steps of CampaignEvidence, which ControlPlane implements.                *)
(*                                                                         *)
(* Abstractions: one campaign; a proposal stands for its id, its digest and *)
(* its approval (all unique in the store); the evidence a proposal binds is *)
(* the campaign revision; identities and owned objects do not change.       *)
(***************************************************************************)
EXTENDS CampaignEvidence, FiniteSets

CONSTANTS Proposals,
          NoProposal,
          Pipes,
          MaxActions,   \* runtime budget, config.budgets.max_actions_total
          MaxRequests,  \* campaign contract budget
          PerMinute,    \* campaign contract rate
          Minute,       \* length of the rolling rate window
          Lifetime,     \* lifetime of an approval
          MaxRevision,  \* bound: campaign revision
          MaxTime       \* bound: the clock

ASSUME NoProposalAssumption == NoProposal \notin Proposals

ASSUME BudgetAssumption ==
  /\ MaxActions \in Nat
  /\ MaxRequests \in Nat
  /\ PerMinute \in Nat
  /\ Minute \in Nat
  /\ Lifetime \in Nat
  /\ MaxRevision \in Nat
  /\ MaxTime \in Nat

\* CampaignEvidence declares the environment: killActive, live, revision.
VARIABLES
  now,          \* the system clock
  binding,      \* external_action_approval_bindings and their approvals
  attempt,      \* external_action_attempts
  pc,           \* where each pipe is in execute()
  work,         \* the proposal a pipe is executing
  latch,        \* Phase2KillSwitch: the signal is aborted
  ran,          \* ghost: how often a proposal's runner was launched
  interrupted   \* ghost: proposals whose active attempt saw a kill or a pause

store == <<binding, attempt>>
pipeline == <<pc, work, latch>>
ghosts == <<ran, interrupted>>
vars == <<evidence, now, store, pipeline, ghosts>>

Active == {"reserved", "running"}
Status == {"none", "reserved", "running", "succeeded", "failed", "aborted"}
Places == {"idle", "reserve", "start", "launch", "running", "finish", "abort",
           "settle_failed", "settle_aborted"}

(* Places of a pipe that holds a reservation.                               *)
Holding == Places \ {"idle", "reserve"}

NoBinding == [status |-> "none", revision |-> 0, createdAt |-> 0,
              decidedAt |-> 0]
NoAttempt == [status |-> "none", reservedAt |-> 0, startedAt |-> 0]

TypeOK ==
  /\ EvidenceTypeOK
  /\ now \in Nat
  /\ binding \in [Proposals ->
       [status : {"none", "open", "accepted", "rejected"}, revision : Nat,
        createdAt : Nat, decidedAt : Nat]]
  /\ attempt \in [Proposals ->
       [status : Status, reservedAt : Nat, startedAt : Nat]]
  /\ pc \in [Pipes -> Places]
  /\ work \in [Pipes -> Proposals \cup {NoProposal}]
  /\ latch \in [Pipes -> BOOLEAN]
  /\ ran \in [Proposals -> Nat]
  /\ interrupted \subseteq Proposals

Attempted == {x \in Proposals : attempt[x].status # "none"}
ActiveAttempts == {x \in Proposals : attempt[x].status \in Active}

-----------------------------------------------------------------------------
(* Mutant: the campaign need only be running again.                         *)
ContextMatchesAnyRevision(boundRevision) == ~killActive /\ live

(* readContext: the campaign is live, at the revision the proposal binds,   *)
(* and the switch is clear.                                                 *)
ContextMatches(boundRevision) ==
  /\ ~killActive
  /\ live
  /\ revision = boundRevision

(* readAcceptedBinding: an accepted decision, inside the approval's life.   *)
BindingAccepted(x) ==
  /\ binding[x].status = "accepted"
  /\ binding[x].createdAt <= now
  /\ now < binding[x].createdAt + Lifetime
  /\ binding[x].createdAt <= binding[x].decidedAt
  /\ binding[x].decidedAt < binding[x].createdAt + Lifetime
  /\ binding[x].decidedAt <= now

Authorized(x) == ContextMatches(binding[x].revision) /\ BindingAccepted(x)

(* Mutant: an attempt that is exactly a minute old is not counted.          *)
InOpenRateWindow(y, at) == attempt[y].reservedAt > at - Minute

(* assertBudget. The window of the rate is closed on both sides.            *)
InRateWindow(y, at) == attempt[y].reservedAt >= at - Minute

CountsLeft ==
  /\ Cardinality(Attempted) < MaxActions
  /\ Cardinality(Attempted) < MaxRequests
  /\ \A y \in Attempted : attempt[y].reservedAt <= now
  /\ Cardinality({y \in Attempted : InRateWindow(y, now)}) < PerMinute

(* Mutant: a reserved attempt does not take the slot.                       *)
WithinBudgetOfRunning(x) ==
  /\ x \notin Attempted
  /\ \A y \in Proposals : attempt[y].status # "running"
  /\ CountsLeft

(* Mutant: a settled proposal may be attempted again.                       *)
WithinBudgetAgain(x) == ActiveAttempts = {} /\ CountsLeft

WithinBudget(x) ==
  /\ x \notin Attempted
  /\ ActiveAttempts = {}
  /\ CountsLeft

(* assertAuthorizationCurrent, at start and again at a successful end.      *)
StartCurrent(x) ==
  /\ attempt[x].status = "reserved"
  /\ attempt[x].reservedAt <= now
  /\ Authorized(x)

FinishCurrent(x) ==
  /\ attempt[x].status = "running"
  /\ attempt[x].startedAt <= now
  /\ Authorized(x)

-----------------------------------------------------------------------------
Init ==
  /\ EvidenceInit
  /\ now = 0
  /\ binding = [x \in Proposals |-> NoBinding]
  /\ attempt = [x \in Proposals |-> NoAttempt]
  /\ pc = [p \in Pipes |-> "idle"]
  /\ work = [p \in Pipes |-> NoProposal]
  /\ latch = [p \in Pipes |-> FALSE]
  /\ ran = [x \in Proposals |-> 0]
  /\ interrupted = {}

Goto(p, place) ==
  /\ pc' = [pc EXCEPT ![p] = place]
  /\ UNCHANGED <<work, latch>>

Return(p) ==
  /\ pc' = [pc EXCEPT ![p] = "idle"]
  /\ work' = [work EXCEPT ![p] = NoProposal]
  /\ UNCHANGED latch

(* Mutant: only the latch is looked at, not the store.                      *)
SeesKillInMemory(p) == latch[p]

(* assertInactive throws: the switch is active, or already latched. It      *)
(* latches for the rest of the process's life.                              *)
SeesKill(p) == latch[p] \/ killActive

Latch(p, place) ==
  /\ pc' = [pc EXCEPT ![p] = place]
  /\ work' = IF place = "idle" THEN [work EXCEPT ![p] = NoProposal] ELSE work
  /\ latch' = [latch EXCEPT ![p] = TRUE]

SetStatus(x, status) ==
  attempt' = [attempt EXCEPT ![x].status = status]

-----------------------------------------------------------------------------
(* The environment: kill switch and campaign, and the clock, which an       *)
(* administrator or NTP may also set back.                                  *)
Environment ==
  /\ EvidenceNext
  /\ revision' <= MaxRevision
  /\ interrupted' = IF killActive' \/ (live /\ ~live')
                    THEN interrupted \cup ActiveAttempts ELSE interrupted
  /\ UNCHANGED <<now, store, pipeline, ran>>

Tick ==
  /\ now < MaxTime
  /\ now' = now + 1
  /\ UNCHANGED <<evidence, store, pipeline, ghosts>>

ClockSetBack ==
  /\ now > 0
  /\ now' = now - 1
  /\ UNCHANGED <<evidence, store, pipeline, ghosts>>

(* prepareStoreBoundExternalActionProposal, then createApproval, which      *)
(* reads the context again and stores approval and binding together.        *)
CreateApproval(x) ==
  /\ ContextMatches(revision)
  /\ binding[x].status = "none"
  /\ binding' = [binding EXCEPT ![x] =
       [status |-> "open", revision |-> revision, createdAt |-> now,
        decidedAt |-> 0]]
  /\ UNCHANGED <<evidence, now, attempt, pipeline, ghosts>>

(* decideApproval, signed for the digest of the binding.                    *)
DecideApproval(x, decision) ==
  /\ ~killActive
  /\ binding[x].status = "open"
  /\ binding' = [binding EXCEPT ![x] =
       [status |-> decision, revision |-> @.revision,
        createdAt |-> @.createdAt, decidedAt |-> now]]
  /\ UNCHANGED <<evidence, now, attempt, pipeline, ghosts>>

-----------------------------------------------------------------------------
(* execute(): the proposal is fixed from here on.                           *)
Begin(p, x) ==
  /\ pc[p] = "idle"
  /\ binding[x].status # "none"
  /\ ~SeesKill(p)
  /\ pc' = [pc EXCEPT ![p] = "reserve"]
  /\ work' = [work EXCEPT ![p] = x]
  /\ UNCHANGED <<evidence, now, store, latch, ghosts>>

BeginKilled(p) ==
  /\ pc[p] = "idle"
  /\ SeesKill(p)
  /\ Latch(p, "idle")
  /\ UNCHANGED <<evidence, now, store, ghosts>>

AuthorizeAndReserve(p) ==
  LET x == work[p] IN
    /\ pc[p] = "reserve"
    /\ Authorized(x)
    /\ WithinBudget(x)
    /\ attempt' = [attempt EXCEPT ![x] =
         [status |-> "reserved", reservedAt |-> now, startedAt |-> 0]]
    /\ Goto(p, "start")
    /\ UNCHANGED <<evidence, now, binding, ghosts>>

ReserveDenied(p) ==
  /\ pc[p] = "reserve"
  /\ ~(Authorized(work[p]) /\ WithinBudget(work[p]))
  /\ Return(p)
  /\ UNCHANGED <<evidence, now, store, ghosts>>

StartAttempt(p) ==
  LET x == work[p] IN
    /\ pc[p] = "start"
    /\ ~latch[p]
    /\ StartCurrent(x)
    /\ attempt' = [attempt EXCEPT ![x] =
         [status |-> "running", reservedAt |-> @.reservedAt, startedAt |-> now]]
    /\ Goto(p, "launch")
    /\ UNCHANGED <<evidence, now, binding, ghosts>>

StartDenied(p) ==
  /\ pc[p] = "start"
  /\ \/ SeesKill(p) /\ Latch(p, "abort")
     \/ ~StartCurrent(work[p]) /\ Goto(p, "abort")
  /\ UNCHANGED <<evidence, now, store, ghosts>>

(* The runner is called once the monitor has seen the switch inactive.      *)
Launch(p) ==
  /\ pc[p] = "launch"
  /\ ~SeesKill(p)
  /\ ran' = [ran EXCEPT ![work[p]] = @ + 1]
  /\ Goto(p, "running")
  /\ UNCHANGED <<evidence, now, store, interrupted>>

(* Mutant: a kill before the launch is settled as a failure of the runner.  *)
LaunchKilledAsFailure(p) ==
  /\ pc[p] = "launch"
  /\ SeesKill(p)
  /\ Latch(p, "settle_failed")
  /\ UNCHANGED <<evidence, now, store, ghosts>>

LaunchKilled(p) ==
  /\ pc[p] = "launch"
  /\ SeesKill(p)
  /\ Latch(p, "settle_aborted")
  /\ UNCHANGED <<evidence, now, store, ghosts>>

RunnerAnswers(p) ==
  /\ pc[p] = "running"
  /\ \E place \in {"finish", "settle_failed"} : Goto(p, place)
  /\ UNCHANGED <<evidence, now, store, ghosts>>

(* A tick of the monitor's five-millisecond timer; whatever the runner      *)
(* answers later is dropped.                                                *)
MonitorTick(p) ==
  /\ pc[p] = "running"
  /\ SeesKill(p)
  /\ Latch(p, "settle_aborted")
  /\ UNCHANGED <<evidence, now, store, ghosts>>

(* settle("succeeded") reads all evidence once more; evidence that has      *)
(* changed turns the settlement into an abort in the same transaction.      *)
SettleSucceeded(p) ==
  /\ pc[p] = "finish"
  /\ ~latch[p]
  /\ attempt[work[p]].status = "running"
  /\ SetStatus(work[p],
               IF FinishCurrent(work[p]) THEN "succeeded" ELSE "aborted")
  /\ Return(p)
  /\ UNCHANGED <<evidence, now, binding, ghosts>>

FinishKilled(p) ==
  /\ pc[p] = "finish"
  /\ SeesKill(p)
  /\ Latch(p, "settle_aborted")
  /\ UNCHANGED <<evidence, now, store, ghosts>>

(* Mutant: an outcome is stored that is not one of the statuses.            *)
SettleWithReason(p) ==
  /\ pc[p] \in {"settle_failed", "settle_aborted"}
  /\ SetStatus(work[p], pc[p])
  /\ Return(p)
  /\ UNCHANGED <<evidence, now, binding, ghosts>>

SettleUnsuccessful(p) ==
  /\ pc[p] \in {"settle_failed", "settle_aborted"}
  /\ attempt[work[p]].status = "running"
  /\ SetStatus(work[p],
               IF pc[p] = "settle_failed" THEN "failed" ELSE "aborted")
  /\ Return(p)
  /\ UNCHANGED <<evidence, now, binding, ghosts>>

AbortReservation(p) ==
  /\ pc[p] = "abort"
  /\ attempt[work[p]].status = "reserved"
  /\ SetStatus(work[p], "aborted")
  /\ Return(p)
  /\ UNCHANGED <<evidence, now, binding, ghosts>>

-----------------------------------------------------------------------------
(* The database cannot be read or locked in time. A check of the switch     *)
(* then counts as active; a transaction of the store throws, which sends a  *)
(* start to its error path and ends every other call where it is.           *)
BusyCheck(p) ==
  /\ \/ pc[p] = "idle" /\ Latch(p, "idle")
     \/ pc[p] = "start" /\ Latch(p, "abort")
     \/ pc[p] \in {"launch", "running", "finish"} /\ Latch(p, "settle_aborted")
  /\ UNCHANGED <<evidence, now, store, ghosts>>

BusyTransaction(p) ==
  /\ \/ pc[p] = "start" /\ Goto(p, "abort")
     \/ pc[p] \in {"reserve", "finish", "abort", "settle_failed",
                   "settle_aborted"} /\ Return(p)
  /\ UNCHANGED <<evidence, now, store, ghosts>>

(* The process dies; the next one starts with a switch that is not latched. *)
Crash(p) ==
  /\ pc' = [pc EXCEPT ![p] = "idle"]
  /\ work' = [work EXCEPT ![p] = NoProposal]
  /\ latch' = [latch EXCEPT ![p] = FALSE]
  /\ UNCHANGED <<evidence, now, store, ghosts>>

-----------------------------------------------------------------------------
ApprovalStep ==
  \E x \in Proposals :
    \/ CreateApproval(x)
    \/ \E decision \in {"accepted", "rejected"} : DecideApproval(x, decision)

PipeStep(p) ==
  \/ \E x \in Proposals : Begin(p, x)
  \/ BeginKilled(p)
  \/ AuthorizeAndReserve(p)
  \/ ReserveDenied(p)
  \/ StartAttempt(p)
  \/ StartDenied(p)
  \/ Launch(p)
  \/ LaunchKilled(p)
  \/ RunnerAnswers(p)
  \/ MonitorTick(p)
  \/ SettleSucceeded(p)
  \/ FinishKilled(p)
  \/ SettleUnsuccessful(p)
  \/ AbortReservation(p)

BusyStep(p) == BusyCheck(p) \/ BusyTransaction(p)

ReliableNext ==
  \/ Environment
  \/ Tick
  \/ ClockSetBack
  \/ ApprovalStep
  \/ \E p \in Pipes : PipeStep(p)

BusyNext == ReliableNext \/ \E p \in Pipes : BusyStep(p)

Next == BusyNext \/ \E p \in Pipes : Crash(p)

Spec == Init /\ [][Next]_vars

-----------------------------------------------------------------------------
(***************************************************************************)
(* Safety.                                                                  *)
(***************************************************************************)

(* The single concurrency slot: no two attempts are reserved or running at  *)
(* once, over all processes and whatever a crash leaves behind              *)
(* (external-action-store.ts assertBudget).                                 *)
AtMostOneActive ==
  \A x, y \in Proposals :
    attempt[x].status \in Active /\ attempt[y].status \in Active => x = y

(* No two runners run at once: the slot in the database is never free while *)
(* a pipe is still waiting for its runner (pipeline.ts execute).            *)
OneRunnerAtATime ==
  \A p, q \in Pipes : pc[p] = "running" /\ pc[q] = "running" => p = q

(* A proposal's runner is launched at most once, and never for an attempt   *)
(* that was aborted before its start, although execute() may be called any  *)
(* number of times for it, by any process, before and after crashes.        *)
RunnerAtMostOnce ==
  \A x \in Proposals :
    /\ ran[x] <= 1
    /\ ran[x] = 1 => attempt[x].status \notin {"none", "reserved"}

(* A success is recorded only for an attempt during which the switch was    *)
(* not engaged and the campaign did not leave the running state, not even   *)
(* when both were back in place at the settlement (external-action-store.ts *)
(* settle, with the revision the proposal binds).                           *)
SuccessUninterrupted ==
  \A x \in Proposals : attempt[x].status = "succeeded" => x \notin interrupted

(* In no window of a minute, both ends included, are more attempts reserved *)
(* than the contract's rate, although the clock may be set back in between. *)
RateRespected ==
  \A x \in Attempted :
    Cardinality({y \in Attempted :
      /\ attempt[x].reservedAt <= attempt[y].reservedAt
      /\ attempt[y].reservedAt <= attempt[x].reservedAt + Minute}) <= PerMinute

(* What PHASE3_STORE_BOUND_EVALUATOR.md says of an error the pipeline       *)
(* catches: the attempt is written as settled, so that as long as no        *)
(* process dies an active attempt always has a pipe that will settle it.    *)
HandledErrorIsSettled ==
  \A x \in ActiveAttempts : \E p \in Pipes : work[p] = x

-----------------------------------------------------------------------------
(***************************************************************************)
(* Refinement.                                                              *)
(***************************************************************************)
Lifecycle == INSTANCE AttemptLifecycle WITH
  status <- [x \in Proposals |-> attempt[x].status], ran <- ran

(* The pipeline over the store implements the promise of AttemptLifecycle.  *)
ImplementsAttemptLifecycle == Lifecycle!LifecycleSpec

-----------------------------------------------------------------------------
(***************************************************************************)
(* Liveness. A pipe that can take a step other than an answer of its runner *)
(* does so: execute() runs to its next await without pause, and the monitor *)
(* is a timer. Nothing makes a runner answer. A crash or a busy database    *)
(* would leave the attempt active for good, so there are none here.         *)
(***************************************************************************)
PipeProgress(p) ==
  \/ AuthorizeAndReserve(p) \/ ReserveDenied(p)
  \/ StartAttempt(p) \/ StartDenied(p)
  \/ Launch(p) \/ LaunchKilled(p) \/ MonitorTick(p)
  \/ SettleSucceeded(p) \/ FinishKilled(p)
  \/ SettleUnsuccessful(p) \/ AbortReservation(p)

FairSpec ==
  /\ Init
  /\ [][ReliableNext]_vars
  /\ \A p \in Pipes : WF_vars(PipeProgress(p))

(* An engaged kill switch that stays engaged ends every attempt, even one   *)
(* whose runner never answers.                                              *)
EngagedSwitchSettlesAttempts ==
  \A x \in Proposals :
    killActive /\ attempt[x].status \in Active
      ~> ~killActive \/ attempt[x].status \notin Active

BusySpec == Init /\ [][BusyNext]_vars /\ \A p \in Pipes : WF_vars(PipeProgress(p))
=============================================================================
