-------------------------- MODULE OperatorStatements --------------------------
(***************************************************************************)
(* The signed operator statements of packages/operator-auth and the part of *)
(* packages/control-plane/store.ts that verifies, stores and re-verifies    *)
(* them: enrolment of the one local credential, authentication of a         *)
(* session, signed approval decisions and signed clears of the kill switch. *)
(* Processes share the database and the clock of the machine, which may be  *)
(* set forward and back. One transaction is one action.                     *)
(*                                                                         *)
(* Abstractions: a statement is the record of its fields, so that its       *)
(* digest is the record itself; the random nonce numbers the statements of  *)
(* a session on record, and one drawn for a statement nobody holds any more *)
(* is free again; operator, key revision and fingerprint are the key. A     *)
(* process is its session. After a request the statement stays with its     *)
(* process, which may submit it again. What a request throws, Fail stands   *)
(* for. Pauses and audits of the kill switch are in ControlPlane.           *)
(***************************************************************************)
EXTENDS Integers, FiniteSets

CONSTANTS Procs,          \* processes, each with its own session id
          Keys,           \* operator keys the secret store may hold
          NoKey,
          Approvals,
          Lifetime,       \* operatorStatementExpiry: five minutes
          MaxTime,        \* bound: readings of the clock
          MaxKill,        \* bound: kill-switch revision
          MaxStatements   \* bound: statements on record

ASSUME KeysAssumption == NoKey \notin Keys

ASSUME TimesAssumption ==
  /\ Lifetime \in Nat \ {0}
  /\ MaxTime \in Nat
  /\ MaxKill \in Nat
  /\ MaxStatements \in Nat

ASSUME ApprovalsAssumption == Approvals # {}

VARIABLES
  now,         \* the machine's clock
  signer,      \* the key each process took from the secret store
  held,        \* the statement a process signed last
  place,       \* where a process is in its current request
  credential,  \* local_operator_credentials: the enrolled key
  stored,      \* operator_signed_statements with verified_at
  approvals,   \* approvals: status, createdAt and decidedAt
  kill         \* system_state row, with the digest its audit entry names

clock == <<now>>
database == <<credential, stored, approvals, kill>>
requests == <<signer, held, place>>
vars == <<clock, requests, database>>

Times == 0..MaxTime
Decisions == {"accepted", "rejected"}
Purposes == {"operator_enrollment", "approval_decision", "kill_switch_clear"}

NoSubject == [approval |-> CHOOSE a \in Approvals : TRUE,
              decision |-> "none", revision |-> 0]
Subject == [approval : Approvals, decision : Decisions \cup {"none"},
            revision : Nat]
Statement == [purpose : Purposes, key : Keys, session : Procs, nonce : Nat,
              issuedAt : Nat, subject : Subject]
NoStatement == [purpose |-> "none"]
StoredStatement == [statement : Statement, verifiedAt : Nat]

Absent == [status |-> "absent", createdAt |-> 0, decidedAt |-> 0]

Places == {"idle", "enroll", "authenticate", "session", "submit"}

TypeOK ==
  /\ now \in Times
  /\ signer \in [Procs -> Keys]
  /\ held \in [Procs -> Statement \cup {NoStatement}]
  /\ place \in [Procs -> Places]
  /\ credential \in Keys \cup {NoKey}
  /\ stored \subseteq StoredStatement
  /\ approvals \in [Approvals ->
       [status : Decisions \cup {"absent", "open"}, createdAt : Nat,
        decidedAt : Nat]]
  /\ kill \in [value : {"clear", "engaged"}, revision : Nat,
               evidence : Statement \cup {NoStatement}]

Init ==
  /\ now = 0
  /\ signer \in [Procs -> Keys]
  /\ held = [p \in Procs |-> NoStatement]
  /\ place = [p \in Procs |-> "idle"]
  /\ credential = NoKey
  /\ stored = {}
  /\ approvals = [a \in Approvals |-> Absent]
  /\ kill = [value |-> "engaged", revision |-> 0, evidence |-> NoStatement]

-----------------------------------------------------------------------------
(* assertStatementCurrent: the window is closed at its start, open at its   *)
(* end; expires_at is issued_at plus the lifetime.                          *)
ExpiresAt(statement) == statement.issuedAt + Lifetime

Current(statement, observed) ==
  /\ statement.issuedAt <= observed
  /\ observed < ExpiresAt(statement)

(* verifySignedApprovalDecision, verifySignedKillSwitchClearCommand: signed *)
(* with the enrolled key, current at the observed time, about this subject. *)
Verifies(statement, purpose, subject, observed) ==
  /\ statement.purpose = purpose
  /\ statement.key = credential
  /\ statement.subject = subject
  /\ Current(statement, observed)

Proofs(statement) ==
  {r \in stored : /\ r.statement.purpose = "operator_enrollment"
                  /\ r.statement.key = statement.key
                  /\ r.statement.session = statement.session}

(* Mutant: only the newest proof of the session is consulted.               *)
AuthenticatedByNewest(statement, observed) ==
  \E r \in Proofs(statement) :
    /\ \A s \in Proofs(statement) : s.verifiedAt <= r.verifiedAt
    /\ r.verifiedAt <= observed
    /\ observed < ExpiresAt(r.statement)

(* assertAuthenticatedOperatorSession: a proof of the same key and session  *)
(* that was already verified and had not expired at the observed time. Of   *)
(* several, any one re-verifies at its own verified_at.                     *)
Authenticated(statement, observed) ==
  \E r \in Proofs(statement) :
    /\ r.verifiedAt <= observed
    /\ observed < ExpiresAt(r.statement)
    /\ Current(r.statement, r.verifiedAt)

(* validSignedKillSwitchClear: the statement the audit entry names is       *)
(* stored and still verifies at the time it was stored with.                *)
ValidSignedClear ==
  /\ kill.value = "clear"
  /\ kill.revision >= 1
  /\ \E r \in stored :
       /\ r.statement = kill.evidence
       /\ Verifies(r.statement, "kill_switch_clear",
                   [NoSubject EXCEPT !.revision = kill.revision - 1],
                   r.verifiedAt)
       /\ Authenticated(r.statement, r.verifiedAt)

KillActive == ~ValidSignedClear

DecisionSubject(a, decision) ==
  [NoSubject EXCEPT !.approval = a, !.decision = decision]

(* requireAuthenticatedApprovalDecision: the stored decision of a decided   *)
(* approval re-verifies at its verified_at and agrees with the row.         *)
DecisionAuthenticated(a) ==
  \E r \in stored :
    /\ Verifies(r.statement, "approval_decision",
                DecisionSubject(a, approvals[a].status), r.verifiedAt)
    /\ Authenticated(r.statement, r.verifiedAt)
    /\ r.statement.issuedAt = approvals[a].decidedAt

(* Mutant: the clock is compared with no earlier observation.               *)
ObserveOperatorTimeUnchecked == TRUE

(* observeOperatorTime and operator_signed_statements_clock_guard: no       *)
(* observation before the newest stored one.                                *)
ObserveOperatorTime == \A r \in stored : r.verifiedAt <= now

(* insertOperatorStatement: digest and nonce are unique.                    *)
InsertOperatorStatement(statement) ==
  /\ Cardinality(stored) < MaxStatements
  /\ \A r \in stored : \/ r.statement.session # statement.session
                       \/ r.statement.nonce # statement.nonce
  /\ stored' = stored \cup {[statement |-> statement, verifiedAt |-> now]}

-----------------------------------------------------------------------------
(* The environment: time passes, or the clock is set.                       *)
SetClock(t) ==
  /\ now' = t
  /\ UNCHANGED <<requests, database>>

(* randomBytes(32): no statement on record or still held has this nonce.    *)
FreshNonce(p) == 1 + Cardinality({r \in stored : r.statement.session = p})

Sign(p, purpose, subject, next) ==
  /\ held' = [held EXCEPT ![p] =
       [purpose |-> purpose, key |-> signer[p], session |-> p,
        nonce |-> FreshNonce(p), issuedAt |-> now, subject |-> subject]]
  /\ place' = [place EXCEPT ![p] = next]
  /\ UNCHANGED <<clock, signer, database>>

(* ensureOperatorEnrolled: the credential is read in one transaction, the   *)
(* proof signed, and then enrolled or authenticated in another.             *)
EnsureOperatorEnrolled(p) ==
  /\ place[p] = "idle"
  /\ credential \in {NoKey, signer[p]}
  /\ Sign(p, "operator_enrollment", NoSubject,
          IF credential = NoKey THEN "enroll" ELSE "authenticate")

(* Mutant: enrolment trusts the credential its caller has read.             *)
CanEnrollTrusting(p) ==
  /\ ObserveOperatorTime
  /\ KillActive
  /\ Current(held[p], now)

CanEnroll(p) ==
  /\ ObserveOperatorTime
  /\ KillActive
  /\ credential = NoKey
  /\ Current(held[p], now)

CanAuthenticate(p) ==
  /\ ObserveOperatorTime
  /\ credential = held[p].key
  /\ Current(held[p], now)

ReachSession(p) ==
  /\ InsertOperatorStatement(held[p])
  /\ place' = [place EXCEPT ![p] = "session"]
  /\ held' = [held EXCEPT ![p] = NoStatement]
  /\ UNCHANGED <<clock, signer, approvals, kill>>

EnrollLocalOperator(p) ==
  /\ place[p] = "enroll"
  /\ CanEnroll(p)
  /\ credential' = held[p].key
  /\ ReachSession(p)

AuthenticateLocalOperatorSession(p) ==
  /\ place[p] = "authenticate"
  /\ CanAuthenticate(p)
  /\ UNCHANGED credential
  /\ ReachSession(p)

-----------------------------------------------------------------------------
(* persistApproval; the clock of the caller gives createdAt.                *)
PersistApproval(a) ==
  /\ approvals[a] = Absent
  /\ approvals' = [approvals EXCEPT ![a].status = "open", ![a].createdAt = now]
  /\ UNCHANGED <<clock, requests, credential, stored, kill>>

(* describeApprovalDecision, then the signature over what it returned.      *)
SignApprovalDecision(p, a, decision) ==
  /\ place[p] = "session"
  /\ approvals[a].status = "open"
  /\ Sign(p, "approval_decision", DecisionSubject(a, decision), "submit")

(* ApprovalQueue.decide, as far as it can refuse.                           *)
QueueAllows(a, statement) ==
  /\ approvals[a].status = "open"
  /\ approvals[a].createdAt <= statement.issuedAt

(* Mutant: the session is not authenticated again by the decision.          *)
CanDecideUnauthenticated(p) ==
  /\ ObserveOperatorTime
  /\ ~KillActive
  /\ Verifies(held[p], "approval_decision", held[p].subject, now)
  /\ QueueAllows(held[p].subject.approval, held[p])

CanDecide(p) ==
  /\ ObserveOperatorTime
  /\ ~KillActive
  /\ Verifies(held[p], "approval_decision", held[p].subject, now)
  /\ Authenticated(held[p], now)
  /\ QueueAllows(held[p].subject.approval, held[p])

Answered(p) ==
  /\ place' = [place EXCEPT ![p] = "idle"]
  /\ UNCHANGED <<clock, signer, held, credential>>

DecideApproval(p) ==
  LET statement == held[p] IN
    /\ statement.purpose = "approval_decision"
    /\ CanDecide(p)
    /\ InsertOperatorStatement(statement)
    /\ approvals' = [approvals EXCEPT
         ![statement.subject.approval].status = statement.subject.decision,
         ![statement.subject.approval].decidedAt = statement.issuedAt]
    /\ UNCHANGED kill
    /\ Answered(p)

-----------------------------------------------------------------------------
(* setKillSwitch(true): the first of its three commits.                     *)
Engage ==
  /\ kill.revision < MaxKill
  /\ kill' = [value |-> "engaged", revision |-> kill.revision + 1,
              evidence |-> NoStatement]
  /\ UNCHANGED <<clock, requests, credential, stored, approvals>>

(* Mutant: the statement names the revision before the engagement.          *)
SignClearForPreviousRevision(p) ==
  /\ place[p] = "session"
  /\ kill.value = "engaged"
  /\ Sign(p, "kill_switch_clear",
          [NoSubject EXCEPT !.revision = kill.revision - 1], "submit")

(* describeKillSwitchClear, then the signature over what it returned.       *)
SignKillSwitchClear(p) ==
  /\ place[p] = "session"
  /\ kill.value = "engaged"
  /\ Sign(p, "kill_switch_clear",
          [NoSubject EXCEPT !.revision = kill.revision], "submit")

CanClear(p) ==
  /\ ObserveOperatorTime
  /\ kill.value = "engaged"
  /\ Verifies(held[p], "kill_switch_clear",
              [NoSubject EXCEPT !.revision = kill.revision], now)
  /\ Authenticated(held[p], now)

ClearKillSwitch(p) ==
  LET statement == held[p] IN
    /\ statement.purpose = "kill_switch_clear"
    /\ kill.revision < MaxKill
    /\ CanClear(p)
    /\ InsertOperatorStatement(statement)
    /\ kill' = [value |-> "clear", revision |-> kill.revision + 1,
                evidence |-> statement]
    /\ UNCHANGED approvals
    /\ Answered(p)

(* A call throws, or a request has no more to do: the process drops its     *)
(* statement.                                                               *)
Refused(p) ==
  \/ place[p] = "enroll" /\ ~CanEnroll(p)
  \/ place[p] = "authenticate" /\ ~CanAuthenticate(p)
  \/ place[p] = "session"
  \/ /\ place[p] = "submit"
     /\ held[p].purpose = "approval_decision" => ~CanDecide(p)
     /\ held[p].purpose = "kill_switch_clear" => ~CanClear(p)

Fail(p) ==
  /\ Refused(p)
  /\ place' = [place EXCEPT ![p] = "idle"]
  /\ held' = [held EXCEPT ![p] = NoStatement]
  /\ UNCHANGED <<clock, signer, database>>

Next ==
  \/ \E t \in Times : SetClock(t)
  \/ \E a \in Approvals : PersistApproval(a)
  \/ Engage
  \/ \E p \in Procs :
       \/ EnsureOperatorEnrolled(p)
       \/ EnrollLocalOperator(p)
       \/ AuthenticateLocalOperatorSession(p)
       \/ \E a \in Approvals, decision \in Decisions :
            SignApprovalDecision(p, a, decision)
       \/ DecideApproval(p)
       \/ SignKillSwitchClear(p)
       \/ ClearKillSwitch(p)
       \/ Fail(p)

Spec == Init /\ [][Next]_vars

-----------------------------------------------------------------------------
(* A cleared switch stays cleared until somebody engages it: the evidence   *)
(* isKillSwitchActive verifies anew on every call does not decay when the   *)
(* statement or its session expires, when the session is authenticated      *)
(* anew, or when the clock is set back.                                     *)
ClearDoesNotDecay == kill.value = "clear" => ~KillActive

(* An approval is decided by one statement: of two operators who sign       *)
(* opposite decisions only one is recorded.                                 *)
OneDecisionPerApproval ==
  \A r, s \in stored :
    /\ r.statement.purpose = "approval_decision"
    /\ s.statement.purpose = "approval_decision"
    /\ r.statement.subject.approval = s.statement.subject.approval
    => r = s

(* Every decided approval can be read and relied on for good: its row       *)
(* hydrates (decided no earlier than created), its signed decision          *)
(* re-verifies in a session that was authenticated when it was taken, and   *)
(* no other decision of it is on record.                                    *)
DecisionsStayAuthenticated ==
  /\ OneDecisionPerApproval
  /\ \A a \in Approvals :
       approvals[a].status \in Decisions =>
         /\ approvals[a].createdAt <= approvals[a].decidedAt
         /\ DecisionAuthenticated(a)

(* Every statement on record was signed with the one enrolled key: of two   *)
(* processes that both found no credential only one enrols its key, and the *)
(* loser's proof leaves no trace.                                           *)
OneKeyForever == \A r \in stored : r.statement.key = credential

(* The recorded verification times tell the order of what happened even     *)
(* when the clock is set back: a later engagement is never cleared at an    *)
(* earlier recorded time.                                                   *)
VerificationTimesFollowEvents ==
  \A r, s \in stored :
    /\ r.statement.purpose = "kill_switch_clear"
    /\ s.statement.purpose = "kill_switch_clear"
    /\ r.statement.subject.revision < s.statement.subject.revision
    => r.verifiedAt <= s.verifiedAt
=============================================================================
