----------------------- MODULE OperatorStatementsProofs -----------------------
(***************************************************************************)
(* Proofs about the signed operator statements, for every set of processes, *)
(* keys and approvals, every lifetime and every bound. The inductive        *)
(* invariant Inv adds to the properties what a process may hold, and what   *)
(* the rows of approvals and system_state say of the statements on record.  *)
(***************************************************************************)
EXTENDS OperatorStatements, FiniteSetTheorems, TLAPS

(* A process that enrols or authenticates holds a proof of enrolment, and a *)
(* signed decision names an approval and a decision and nothing else.       *)
HeldInv ==
  \A p \in Procs :
    /\ place[p] \in {"enroll", "authenticate"} =>
         held[p].purpose = "operator_enrollment"
    /\ held[p].purpose = "approval_decision" =>
         \E a \in Approvals, d \in Decisions :
           held[p].subject = DecisionSubject(a, d)

(* The row of an approval agrees with every decision of it on record, so an *)
(* open approval has none.                                                  *)
DecisionInv ==
  \A r \in stored :
    r.statement.purpose = "approval_decision" =>
      /\ r.statement.subject.decision \in Decisions
      /\ approvals[r.statement.subject.approval].status =
           r.statement.subject.decision

(* A clear on record was signed for a revision the switch has left behind.  *)
ClearInv ==
  \A r \in stored :
    r.statement.purpose = "kill_switch_clear" =>
      r.statement.subject.revision < kill.revision

(* What the database keeps, whatever the processes hold.                    *)
DatabaseInv ==
  /\ IsFiniteSet(stored)
  /\ DecisionInv
  /\ ClearInv
  /\ OneKeyForever
  /\ ClearDoesNotDecay
  /\ DecisionsStayAuthenticated
  /\ VerificationTimesFollowEvents

Inv ==
  /\ TypeOK
  /\ HeldInv
  /\ DatabaseInv

-----------------------------------------------------------------------------
(* The subjects the code signs are subjects, and say what they were made of. *)
LEMMA SubjectForms ==
  /\ NoSubject \in Subject
  /\ \A a \in Approvals, d \in Decisions :
       /\ DecisionSubject(a, d) \in Subject
       /\ DecisionSubject(a, d).approval = a
       /\ DecisionSubject(a, d).decision = d
  /\ \A n \in Nat :
       /\ [NoSubject EXCEPT !.revision = n] \in Subject
       /\ [NoSubject EXCEPT !.revision = n].revision = n
  <1>1. (CHOOSE a \in Approvals : TRUE) \in Approvals
    BY ApprovalsAssumption
  <1> DEFINE first == CHOOSE a \in Approvals : TRUE
  <1> HIDE DEF first
  <1>2. NoSubject = [approval |-> first, decision |-> "none", revision |-> 0]
    BY DEF NoSubject, first
  <1>3. first \in Approvals
    BY <1>1 DEF first
  <1> QED
    BY <1>2, <1>3 DEF Subject, DecisionSubject

(* A statement with a purpose is one that was signed.                       *)
LEMMA HeldStatement ==
  ASSUME TypeOK, NEW p \in Procs, held[p].purpose # "none"
  PROVE  held[p] \in Statement
  <1>1. held[p] \in Statement \cup {NoStatement}
    BY DEF TypeOK
  <1> QED
    BY <1>1 DEF NoStatement

(* The number of a fresh nonce is a number.                                 *)
LEMMA FreshNonceNat ==
  ASSUME IsFiniteSet(stored), NEW p \in Procs
  PROVE  FreshNonce(p) \in Nat
  <1> DEFINE own == {r \in stored : r.statement.session = p}
  <1>1. IsFiniteSet(own)
    BY FS_Subset
  <1>2. Cardinality(own) \in Nat
    BY <1>1, FS_CardinalityType
  <1> QED
    BY <1>2 DEF FreshNonce

(* An authentication on record stays one as long as nothing is deleted and  *)
(* the credential stays.                                                    *)
LEMMA AuthenticatedStays ==
  ASSUME stored \subseteq stored', NEW s, NEW t, Authenticated(s, t)
  PROVE  Authenticated(s, t)'
  BY DEF Authenticated, Proofs, Current, ExpiresAt

(* Before the first enrolment nothing is on record.                         *)
LEMMA NothingBeforeEnrollment ==
  ASSUME TypeOK, OneKeyForever, credential = NoKey
  PROVE  stored = {}
  <1> SUFFICES ASSUME NEW r \in stored PROVE FALSE
    OBVIOUS
  <1>1. r \in StoredStatement
    BY DEF TypeOK
  <1>2. r.statement \in Statement
    BY <1>1 DEF StoredStatement
  <1>3. r.statement.key \in Keys
    BY <1>2 DEF Statement
  <1> QED
    BY <1>3, KeysAssumption DEF OneKeyForever

-----------------------------------------------------------------------------
LEMMA InitInv == Init => Inv
  <1> SUFFICES ASSUME Init PROVE Inv
    OBVIOUS
  <1> USE DEF Init
  <1>1. TypeOK
    BY TimesAssumption
       DEF TypeOK, Times, Places, Absent, Decisions, NoStatement
  <1>2. HeldInv
    BY DEF HeldInv, NoStatement
  <1>3. IsFiniteSet(stored)
    BY FS_EmptySet
  <1>4. DecisionInv /\ ClearInv /\ OneKeyForever
    BY DEF DecisionInv, ClearInv, OneKeyForever
  <1>5. ClearDoesNotDecay
    BY DEF ClearDoesNotDecay
  <1>6. DecisionsStayAuthenticated
    BY DEF DecisionsStayAuthenticated, OneDecisionPerApproval, Absent,
           Decisions
  <1>7. VerificationTimesFollowEvents
    BY DEF VerificationTimesFollowEvents
  <1> QED
    BY <1>1, <1>2, <1>3, <1>4, <1>5, <1>6, <1>7 DEF Inv, DatabaseInv

(* A signature is a statement about a subject that was typed.               *)
LEMMA SignType ==
  ASSUME Inv, NEW p \in Procs, NEW purpose \in Purposes,
         NEW subject \in Subject, NEW next \in Places,
         Sign(p, purpose, subject, next)
  PROVE  TypeOK'
  <1> DEFINE signed ==
        [purpose |-> purpose, key |-> signer[p], session |-> p,
         nonce |-> FreshNonce(p), issuedAt |-> now, subject |-> subject]
  <1> USE DEF Inv, DatabaseInv
  <1>1. FreshNonce(p) \in Nat
    BY FreshNonceNat
  <1>2. signer[p] \in Keys /\ now \in Nat
    BY TimesAssumption DEF TypeOK, Times
  <1>3. signed \in Statement
    BY <1>1, <1>2 DEF Statement
  <1>4. held' = [held EXCEPT ![p] = signed]
    BY DEF Sign
  <1> HIDE DEF signed
  <1>5. held' \in [Procs -> Statement \cup {NoStatement}]
    BY <1>3, <1>4 DEF TypeOK
  <1>6. place' \in [Procs -> Places]
    BY DEF Sign, TypeOK
  <1> QED
    BY <1>5, <1>6 DEF Sign, TypeOK, clock, database, Times

(* What is inserted is a row.                                               *)
LEMMA InsertType ==
  ASSUME TypeOK, NEW s \in Statement, InsertOperatorStatement(s)
  PROVE  (stored \subseteq StoredStatement)'
  <1>1. now \in Nat
    BY TimesAssumption DEF TypeOK, Times
  <1>2. [statement |-> s, verifiedAt |-> now] \in StoredStatement
    BY <1>1 DEF StoredStatement
  <1> QED
    BY <1>2 DEF TypeOK, InsertOperatorStatement, StoredStatement, Statement

LEMMA InsertFinite ==
  ASSUME IsFiniteSet(stored), NEW s, InsertOperatorStatement(s)
  PROVE  IsFiniteSet(stored)'
  BY FS_AddElement DEF InsertOperatorStatement

-----------------------------------------------------------------------------
(* Types, one step per action.                                              *)
LEMMA TypeStep == Inv /\ [Next]_vars => TypeOK'
  <1> SUFFICES ASSUME Inv, [Next]_vars PROVE TypeOK'
    OBVIOUS
  <1>t. TypeOK
    BY DEF Inv
  <1>1. CASE \E t \in Times : SetClock(t)
    <2>1. now' \in Times
      BY <1>1 DEF SetClock
    <2>2. UNCHANGED <<signer, held, place, credential, stored, approvals, kill>>
      BY <1>1 DEF SetClock, requests, database
    <2> QED
      BY <1>t, <2>1, <2>2 DEF TypeOK, Times
  <1>2. CASE \E a \in Approvals : PersistApproval(a)
    <2>1. now \in Nat
      BY <1>t, TimesAssumption DEF TypeOK, Times
    <2>2. PICK a \in Approvals : PersistApproval(a)
      BY <1>2
    <2>3. approvals' \in [Approvals ->
            [status : Decisions \cup {"absent", "open"}, createdAt : Nat,
             decidedAt : Nat]]
      BY <1>t, <2>1, <2>2 DEF PersistApproval, TypeOK
    <2> QED
      BY <1>t, <2>2, <2>3 DEF PersistApproval, TypeOK, clock, requests, Times
  <1>3. CASE Engage
    BY <1>t, <1>3 DEF TypeOK, Engage, clock, requests, Times
  <1>4. ASSUME NEW p \in Procs, EnsureOperatorEnrolled(p) PROVE TypeOK'
    <2> DEFINE next ==
          IF credential = NoKey THEN "enroll" ELSE "authenticate"
    <2>1. next \in Places /\ "operator_enrollment" \in Purposes
      BY DEF Places, Purposes
    <2>2. Sign(p, "operator_enrollment", NoSubject, next)
      BY <1>4 DEF EnsureOperatorEnrolled
    <2> QED
      BY <2>1, <2>2, SubjectForms, SignType
  <1>5. ASSUME NEW p \in Procs, ReachSession(p),
               held[p].purpose = "operator_enrollment",
               credential' \in Keys \cup {NoKey}
        PROVE  TypeOK'
    <2>1. held[p] \in Statement
      BY <1>t, <1>5, HeldStatement
    <2>2. (stored \subseteq StoredStatement)'
      BY <1>t, <1>5, <2>1, InsertType DEF ReachSession
    <2>3. place' \in [Procs -> Places]
      BY <1>t, <1>5 DEF ReachSession, TypeOK, Places
    <2>4. held' \in [Procs -> Statement \cup {NoStatement}]
      BY <1>t, <1>5 DEF ReachSession, TypeOK
    <2> QED
      BY <1>t, <1>5, <2>2, <2>3, <2>4 DEF ReachSession, TypeOK, clock, Times
  <1>6. ASSUME NEW p \in Procs, EnrollLocalOperator(p) PROVE TypeOK'
    <2>1. held[p].purpose = "operator_enrollment"
      BY <1>6 DEF Inv, HeldInv, EnrollLocalOperator
    <2>2. held[p] \in Statement
      BY <1>t, <2>1, HeldStatement
    <2>3. credential' \in Keys
      BY <1>6, <2>2 DEF EnrollLocalOperator, Statement
    <2> QED
      BY <1>5, <1>6, <2>1, <2>3 DEF EnrollLocalOperator
  <1>7. ASSUME NEW p \in Procs, AuthenticateLocalOperatorSession(p)
        PROVE  TypeOK'
    <2>1. held[p].purpose = "operator_enrollment"
      BY <1>7 DEF Inv, HeldInv, AuthenticateLocalOperatorSession
    <2>2. credential' \in Keys \cup {NoKey}
      BY <1>t, <1>7 DEF AuthenticateLocalOperatorSession, TypeOK
    <2> QED
      BY <1>5, <1>7, <2>1, <2>2 DEF AuthenticateLocalOperatorSession
  <1>8. ASSUME NEW p \in Procs, NEW a \in Approvals, NEW d \in Decisions,
               SignApprovalDecision(p, a, d)
        PROVE  TypeOK'
    <2>1. "approval_decision" \in Purposes /\ "submit" \in Places
      BY DEF Purposes, Places
    <2> QED
      BY <1>8, <2>1, SubjectForms, SignType DEF SignApprovalDecision
  <1>9. ASSUME NEW p \in Procs, DecideApproval(p) PROVE TypeOK'
    <2>1. held[p] \in Statement
      BY <1>t, <1>9, HeldStatement DEF DecideApproval
    <2>2. (stored \subseteq StoredStatement)'
      BY <1>t, <1>9, <2>1, InsertType DEF DecideApproval
    <2>3. PICK a \in Approvals, d \in Decisions :
            held[p].subject = DecisionSubject(a, d)
      BY <1>9 DEF DecideApproval, Inv, HeldInv
    <2>4. held[p].subject.decision \in Decisions
      BY <2>3, SubjectForms
    <2>5. held[p].issuedAt \in Nat
      BY <2>1 DEF Statement
    <2>6. approvals' \in [Approvals ->
            [status : Decisions \cup {"absent", "open"}, createdAt : Nat,
             decidedAt : Nat]]
      BY <1>t, <1>9, <2>4, <2>5 DEF DecideApproval, TypeOK
    <2>7. place' \in [Procs -> Places]
      BY <1>t, <1>9 DEF DecideApproval, Answered, TypeOK, Places
    <2> QED
      BY <1>t, <1>9, <2>2, <2>6, <2>7
         DEF DecideApproval, Answered, TypeOK, clock, Times
  <1>10. ASSUME NEW p \in Procs, SignKillSwitchClear(p) PROVE TypeOK'
    <2>1. "kill_switch_clear" \in Purposes /\ "submit" \in Places
      BY DEF Purposes, Places
    <2>2. kill.revision \in Nat
      BY <1>t DEF TypeOK
    <2>3. [NoSubject EXCEPT !.revision = kill.revision] \in Subject
      BY <2>2, SubjectForms
    <2> QED
      BY <1>10, <2>1, <2>3, SignType DEF SignKillSwitchClear
  <1>11. ASSUME NEW p \in Procs, ClearKillSwitch(p) PROVE TypeOK'
    <2>1. held[p] \in Statement
      BY <1>t, <1>11, HeldStatement DEF ClearKillSwitch
    <2>2. (stored \subseteq StoredStatement)'
      BY <1>t, <1>11, <2>1, InsertType DEF ClearKillSwitch
    <2>3. kill' \in [value : {"clear", "engaged"}, revision : Nat,
                     evidence : Statement \cup {NoStatement}]
      BY <1>t, <1>11, <2>1 DEF ClearKillSwitch, TypeOK
    <2>4. place' \in [Procs -> Places]
      BY <1>t, <1>11 DEF ClearKillSwitch, Answered, TypeOK, Places
    <2> QED
      BY <1>t, <1>11, <2>2, <2>3, <2>4
         DEF ClearKillSwitch, Answered, TypeOK, clock, Times
  <1>12. ASSUME NEW p \in Procs, Fail(p) PROVE TypeOK'
    <2>1. place' \in [Procs -> Places]
      BY <1>t, <1>12 DEF Fail, TypeOK, Places
    <2> QED
      BY <1>t, <1>12, <2>1 DEF Fail, TypeOK, clock, database, Times
  <1>13. CASE UNCHANGED vars
    BY <1>t, <1>13 DEF TypeOK, vars, clock, requests, database, Times
  <1> QED
    BY <1>1, <1>2, <1>3, <1>4, <1>6, <1>7, <1>8, <1>9, <1>10, <1>11, <1>12,
       <1>13 DEF Next

(* What a process holds: a signature names its purpose and its subject, and *)
(* every other step keeps the statement or drops it.                        *)
LEMMA HeldStep == Inv /\ [Next]_vars => HeldInv'
  <1> SUFFICES ASSUME Inv, [Next]_vars PROVE HeldInv'
    OBVIOUS
  <1>t. TypeOK /\ HeldInv
    BY DEF Inv
  <1>1. CASE UNCHANGED <<held, place>>
    BY <1>t, <1>1 DEF HeldInv
  <1>2. ASSUME NEW p \in Procs, NEW next,
               held' = [held EXCEPT ![p] = NoStatement],
               place' = [place EXCEPT ![p] = next],
               next \in {"session", "idle"}
        PROVE  HeldInv'
    BY <1>t, <1>2 DEF HeldInv, TypeOK, NoStatement
  <1>3. ASSUME NEW p \in Procs, EnsureOperatorEnrolled(p) PROVE HeldInv'
    BY <1>t, <1>3 DEF HeldInv, TypeOK, EnsureOperatorEnrolled, Sign
  <1>4. ASSUME NEW p \in Procs, NEW a \in Approvals, NEW d \in Decisions,
               SignApprovalDecision(p, a, d)
        PROVE  HeldInv'
    BY <1>t, <1>4 DEF HeldInv, TypeOK, SignApprovalDecision, Sign
  <1>5. ASSUME NEW p \in Procs, SignKillSwitchClear(p) PROVE HeldInv'
    BY <1>t, <1>5 DEF HeldInv, TypeOK, SignKillSwitchClear, Sign
  <1>6. ASSUME NEW p \in Procs, Answered(p) PROVE HeldInv'
    BY <1>t, <1>6 DEF HeldInv, TypeOK, Answered
  <1>7. CASE \/ \E t \in Times : SetClock(t)
             \/ \E a \in Approvals : PersistApproval(a)
             \/ Engage
             \/ UNCHANGED vars
    BY <1>1, <1>7 DEF SetClock, PersistApproval, Engage, vars, requests
  <1>8. ASSUME NEW p \in Procs,
               \/ EnrollLocalOperator(p)
               \/ AuthenticateLocalOperatorSession(p)
        PROVE  HeldInv'
    BY <1>2, <1>8
       DEF EnrollLocalOperator, AuthenticateLocalOperatorSession, ReachSession
  <1>9. ASSUME NEW p \in Procs, Fail(p) PROVE HeldInv'
    BY <1>2, <1>9 DEF Fail
  <1>10. ASSUME NEW p \in Procs, DecideApproval(p) \/ ClearKillSwitch(p)
         PROVE  HeldInv'
    BY <1>6, <1>10 DEF DecideApproval, ClearKillSwitch
  <1> QED
    BY <1>3, <1>4, <1>5, <1>7, <1>8, <1>9, <1>10 DEF Next

-----------------------------------------------------------------------------
(* A signed clear, and a decided approval, as the code reads them back:     *)
(* both survive whatever leaves their rows and the credential alone.        *)
LEMMA ClearStays ==
  ASSUME ClearDoesNotDecay, stored \subseteq stored',
         UNCHANGED <<credential, kill>>
  PROVE  ClearDoesNotDecay'
  <1> SUFFICES ASSUME kill.value = "clear" PROVE ValidSignedClear'
    BY DEF ClearDoesNotDecay, KillActive
  <1> DEFINE subject == [NoSubject EXCEPT !.revision = kill.revision - 1]
  <1>1. ValidSignedClear
    BY DEF ClearDoesNotDecay, KillActive
  <1>2. PICK r \in stored :
          /\ r.statement = kill.evidence
          /\ Verifies(r.statement, "kill_switch_clear", subject, r.verifiedAt)
          /\ Authenticated(r.statement, r.verifiedAt)
    BY <1>1 DEF ValidSignedClear
  <1>3. Authenticated(r.statement, r.verifiedAt)'
    BY <1>2, AuthenticatedStays
  <1>4. Verifies(r.statement, "kill_switch_clear", subject, r.verifiedAt)'
    BY <1>2 DEF Verifies, Current, ExpiresAt
  <1> QED
    BY <1>1, <1>2, <1>3, <1>4 DEF ValidSignedClear

LEMMA DecisionStays ==
  ASSUME NEW a \in Approvals, DecisionAuthenticated(a),
         stored \subseteq stored', credential' = credential,
         approvals'[a] = approvals[a]
  PROVE  DecisionAuthenticated(a)'
  <1> DEFINE subject == DecisionSubject(a, approvals[a].status)
  <1>1. PICK r \in stored :
          /\ Verifies(r.statement, "approval_decision", subject, r.verifiedAt)
          /\ Authenticated(r.statement, r.verifiedAt)
          /\ r.statement.issuedAt = approvals[a].decidedAt
    BY DEF DecisionAuthenticated
  <1>2. Authenticated(r.statement, r.verifiedAt)'
    BY <1>1, AuthenticatedStays
  <1>3. Verifies(r.statement, "approval_decision", subject, r.verifiedAt)'
    BY <1>1 DEF Verifies, Current, ExpiresAt
  <1> QED
    BY <1>1, <1>2, <1>3 DEF DecisionAuthenticated

(* Steps that leave the statements on record and the credential alone.      *)
LEMMA RecordKept ==
  ASSUME Inv, UNCHANGED <<stored, credential>>
  PROVE  /\ IsFiniteSet(stored)'
         /\ OneKeyForever'
         /\ OneDecisionPerApproval'
         /\ VerificationTimesFollowEvents'
  BY DEF Inv, DatabaseInv, OneKeyForever, DecisionsStayAuthenticated,
         OneDecisionPerApproval, VerificationTimesFollowEvents

LEMMA KeptDatabase ==
  ASSUME Inv, UNCHANGED database
  PROVE  DatabaseInv'
  <1> USE DEF database
  <1>1. DecisionInv' /\ ClearInv'
    BY DEF Inv, DatabaseInv, DecisionInv, ClearInv
  <1>2. ClearDoesNotDecay'
    BY ClearStays DEF Inv, DatabaseInv
  <1>3. ASSUME NEW a \in Approvals, approvals'[a].status \in Decisions
        PROVE  /\ approvals'[a].createdAt <= approvals'[a].decidedAt
               /\ DecisionAuthenticated(a)'
    BY <1>3, DecisionStays DEF Inv, DatabaseInv, DecisionsStayAuthenticated
  <1> QED
    BY <1>1, <1>2, <1>3, RecordKept DEF DatabaseInv, DecisionsStayAuthenticated

LEMMA PersistApprovalStep ==
  ASSUME Inv, NEW a \in Approvals, PersistApproval(a)
  PROVE  DatabaseInv'
  <1>1. UNCHANGED <<credential, stored, kill>> /\ approvals[a] = Absent
    BY DEF PersistApproval
  <1>2. \A b \in Approvals \ {a} : approvals'[b] = approvals[b]
    BY DEF PersistApproval, Inv, TypeOK
  <1>3. approvals'[a].status = "open"
    BY DEF PersistApproval, Inv, TypeOK
  <1>4. ClearInv' /\ ClearDoesNotDecay'
    BY <1>1, ClearStays DEF Inv, DatabaseInv, ClearInv
  <1>5. DecisionInv'
    <2> SUFFICES ASSUME NEW r \in stored,
                        r.statement.purpose = "approval_decision"
                 PROVE  /\ r.statement.subject.decision \in Decisions
                        /\ approvals'[r.statement.subject.approval].status =
                             r.statement.subject.decision
      BY <1>1 DEF DecisionInv
    <2>1. /\ r.statement.subject.decision \in Decisions
          /\ approvals[r.statement.subject.approval].status =
               r.statement.subject.decision
      BY DEF Inv, DatabaseInv, DecisionInv
    <2>2. r.statement.subject.approval \in Approvals
      BY DEF Inv, TypeOK, StoredStatement, Statement, Subject
    <2>3. r.statement.subject.approval # a
      BY <1>1, <2>1 DEF Absent, Decisions
    <2> QED
      BY <1>2, <2>1, <2>2, <2>3
  <1>6. ASSUME NEW b \in Approvals, approvals'[b].status \in Decisions
        PROVE  /\ approvals'[b].createdAt <= approvals'[b].decidedAt
               /\ DecisionAuthenticated(b)'
    <2>1. b # a
      BY <1>3, <1>6 DEF Decisions
    <2> QED
      BY <1>1, <1>2, <1>6, <2>1, DecisionStays
         DEF Inv, DatabaseInv, DecisionsStayAuthenticated
  <1> QED
    BY <1>1, <1>4, <1>5, <1>6, RecordKept
       DEF DatabaseInv, DecisionsStayAuthenticated

LEMMA EngageStep ==
  ASSUME Inv, Engage
  PROVE  DatabaseInv'
  <1>1. UNCHANGED <<credential, stored, approvals>>
    BY DEF Engage
  <1>2. kill'.value = "engaged" /\ kill'.revision = kill.revision + 1
    BY DEF Engage
  <1>3. DecisionInv' /\ ClearDoesNotDecay'
    BY <1>1, <1>2 DEF Inv, DatabaseInv, DecisionInv, ClearDoesNotDecay
  <1>4. ClearInv'
    <2> SUFFICES ASSUME NEW r \in stored,
                        r.statement.purpose = "kill_switch_clear"
                 PROVE  r.statement.subject.revision < kill'.revision
      BY <1>1 DEF ClearInv
    <2>1. r.statement.subject.revision \in Nat /\ kill.revision \in Nat
      BY DEF Inv, TypeOK, StoredStatement, Statement, Subject
    <2>2. r.statement.subject.revision < kill.revision
      BY DEF Inv, DatabaseInv, ClearInv
    <2> QED
      BY <1>2, <2>1, <2>2
  <1>5. ASSUME NEW a \in Approvals, approvals'[a].status \in Decisions
        PROVE  /\ approvals'[a].createdAt <= approvals'[a].decidedAt
               /\ DecisionAuthenticated(a)'
    BY <1>1, <1>5, DecisionStays
       DEF Inv, DatabaseInv, DecisionsStayAuthenticated
  <1> QED
    BY <1>1, <1>3, <1>4, <1>5, RecordKept
       DEF DatabaseInv, DecisionsStayAuthenticated

-----------------------------------------------------------------------------
(* A proof of the session enters the record: it is no decision and no       *)
(* clear, so only the key it was signed with matters.                       *)
LEMMA ProofInserted ==
  ASSUME Inv, NEW p \in Procs, ReachSession(p),
         held[p].purpose = "operator_enrollment", held[p].key = credential'
  PROVE  /\ IsFiniteSet(stored)'
         /\ stored \subseteq stored'
         /\ DecisionInv' /\ ClearInv'
         /\ credential' = credential => OneKeyForever'
         /\ OneDecisionPerApproval'
         /\ VerificationTimesFollowEvents'
  <1> DEFINE row == [statement |-> held[p], verifiedAt |-> now]
  <1>1. stored' = stored \cup {row} /\ UNCHANGED <<approvals, kill>>
    BY DEF ReachSession, InsertOperatorStatement
  <1>2. row.statement = held[p]
    OBVIOUS
  <1> HIDE DEF row
  <1>3. IsFiniteSet(stored)'
    BY <1>1, FS_AddElement DEF Inv, DatabaseInv
  <1>4. DecisionInv' /\ ClearInv'
    BY <1>1, <1>2 DEF Inv, DatabaseInv, DecisionInv, ClearInv
  <1>5. credential' = credential => OneKeyForever'
    BY <1>1, <1>2 DEF Inv, DatabaseInv, OneKeyForever
  <1>6. OneDecisionPerApproval'
    BY <1>1, <1>2
       DEF Inv, DatabaseInv, DecisionsStayAuthenticated, OneDecisionPerApproval
  <1>7. VerificationTimesFollowEvents'
    BY <1>1, <1>2 DEF Inv, DatabaseInv, VerificationTimesFollowEvents
  <1> QED
    BY <1>1, <1>3, <1>4, <1>5, <1>6, <1>7

(* Enrolment changes the credential, so nothing may depend on it yet: the   *)
(* switch is active, and with no credential nothing is on record.           *)
LEMMA EnrollStep ==
  ASSUME Inv, NEW p \in Procs, EnrollLocalOperator(p)
  PROVE  DatabaseInv'
  <1>1. /\ ReachSession(p) /\ credential' = held[p].key
        /\ credential = NoKey /\ KillActive
    BY DEF EnrollLocalOperator, CanEnroll
  <1>2. held[p].purpose = "operator_enrollment"
    BY DEF Inv, HeldInv, EnrollLocalOperator
  <1>3. stored = {}
    BY <1>1, NothingBeforeEnrollment DEF Inv, DatabaseInv
  <1>4. OneKeyForever'
    BY <1>1, <1>3
       DEF ReachSession, InsertOperatorStatement, OneKeyForever
  <1>5. ClearDoesNotDecay'
    BY <1>1 DEF Inv, DatabaseInv, ClearDoesNotDecay, ReachSession
  <1>6. \A a \in Approvals : approvals'[a].status \notin Decisions
    BY <1>1, <1>3 DEF Inv, DatabaseInv, DecisionsStayAuthenticated,
       DecisionAuthenticated, ReachSession
  <1> QED
    BY <1>1, <1>2, <1>4, <1>5, <1>6, ProofInserted
       DEF DatabaseInv, DecisionsStayAuthenticated

LEMMA AuthenticateStep ==
  ASSUME Inv, NEW p \in Procs, AuthenticateLocalOperatorSession(p)
  PROVE  DatabaseInv'
  <1>1. /\ ReachSession(p) /\ credential' = credential
        /\ credential = held[p].key /\ UNCHANGED <<approvals, kill>>
    BY DEF AuthenticateLocalOperatorSession, CanAuthenticate, ReachSession
  <1>2. held[p].purpose = "operator_enrollment"
    BY DEF Inv, HeldInv, AuthenticateLocalOperatorSession
  <1>3. stored \subseteq stored'
    BY <1>1, <1>2, ProofInserted
  <1>4. ClearDoesNotDecay'
    BY <1>1, <1>3, ClearStays DEF Inv, DatabaseInv
  <1>5. ASSUME NEW a \in Approvals, approvals'[a].status \in Decisions
        PROVE  /\ approvals'[a].createdAt <= approvals'[a].decidedAt
               /\ DecisionAuthenticated(a)'
    BY <1>1, <1>3, <1>5, DecisionStays
       DEF Inv, DatabaseInv, DecisionsStayAuthenticated
  <1> QED
    BY <1>1, <1>2, <1>4, <1>5, ProofInserted
       DEF DatabaseInv, DecisionsStayAuthenticated

(* A decision enters the record for an approval that was open, so it is the *)
(* first of its approval; it and its session verify at this moment, and the *)
(* row re-verifies at the time it is stored with.                           *)
LEMMA DecideStep ==
  ASSUME Inv, NEW p \in Procs, DecideApproval(p)
  PROVE  DatabaseInv'
  <1>0. PICK row : row = [statement |-> held[p], verifiedAt |-> now]
    OBVIOUS
  <1>1. PICK a \in Approvals, d \in Decisions :
          held[p].subject = DecisionSubject(a, d)
    BY DEF DecideApproval, Inv, HeldInv
  <1>2. held[p].subject.approval = a /\ held[p].subject.decision = d
    BY <1>1, SubjectForms
  <1>3. /\ held[p].purpose = "approval_decision"
        /\ CanDecide(p)
        /\ stored' = stored \cup {row}
        /\ UNCHANGED <<credential, kill>>
    BY <1>0 DEF DecideApproval, Answered, InsertOperatorStatement
  <1>4. row.statement = held[p] /\ row.verifiedAt = now
    BY <1>0
  <1>5. /\ approvals'[a].status = d
        /\ approvals'[a].decidedAt = held[p].issuedAt
        /\ approvals'[a].createdAt = approvals[a].createdAt
    BY <1>2 DEF DecideApproval, Inv, TypeOK
  <1>6. \A b \in Approvals \ {a} : approvals'[b] = approvals[b]
    BY <1>2 DEF DecideApproval, Inv, TypeOK
  <1>7. approvals[a].status = "open"
    BY <1>2, <1>3 DEF CanDecide, QueueAllows
  <1>8. \A r \in stored : r.statement.purpose = "approval_decision" =>
          /\ r.statement.subject.approval \in Approvals
          /\ r.statement.subject.approval # a
    BY <1>7 DEF Inv, DatabaseInv, DecisionInv, Decisions,
       TypeOK, StoredStatement, Statement, Subject
  <1>9. IsFiniteSet(stored)'
    BY <1>3, FS_AddElement DEF Inv, DatabaseInv
  <1>10. DecisionInv'
    <2> SUFFICES ASSUME NEW r \in stored',
                        r.statement.purpose = "approval_decision"
                 PROVE  /\ r.statement.subject.decision \in Decisions
                        /\ approvals'[r.statement.subject.approval].status =
                             r.statement.subject.decision
      BY DEF DecisionInv
    <2>1. CASE r = row
      BY <1>2, <1>4, <1>5, <2>1
    <2>2. CASE r \in stored
      BY <1>6, <1>8, <2>2 DEF Inv, DatabaseInv, DecisionInv
    <2> QED
      BY <1>3, <2>1, <2>2
  <1>11. ClearInv'
    BY <1>3, <1>4 DEF Inv, DatabaseInv, ClearInv
  <1>12. OneKeyForever'
    BY <1>3, <1>4
       DEF CanDecide, Verifies, Inv, DatabaseInv, OneKeyForever
  <1>13. ClearDoesNotDecay'
    BY <1>3, ClearStays DEF Inv, DatabaseInv
  <1>14. VerificationTimesFollowEvents'
    BY <1>3, <1>4 DEF Inv, DatabaseInv, VerificationTimesFollowEvents
  <1>15. OneDecisionPerApproval'
    BY <1>2, <1>3, <1>4, <1>8
       DEF Inv, DatabaseInv, DecisionsStayAuthenticated, OneDecisionPerApproval
  <1>16. DecisionAuthenticated(a)'
    <2>1. Authenticated(row.statement, row.verifiedAt)'
      BY <1>3, <1>4, AuthenticatedStays DEF CanDecide
    <2>2. Verifies(row.statement, "approval_decision",
                   DecisionSubject(a, d), row.verifiedAt)'
      BY <1>1, <1>3, <1>4 DEF CanDecide, Verifies, Current, ExpiresAt
    <2> QED
      BY <1>3, <1>4, <1>5, <2>1, <2>2 DEF DecisionAuthenticated
  <1>17. ASSUME NEW b \in Approvals, approvals'[b].status \in Decisions
         PROVE  /\ approvals'[b].createdAt <= approvals'[b].decidedAt
                /\ DecisionAuthenticated(b)'
    <2>1. CASE b = a
      BY <1>2, <1>3, <1>5, <1>16, <2>1 DEF CanDecide, QueueAllows
    <2>2. CASE b # a
      BY <1>3, <1>6, <1>17, <2>2, DecisionStays
         DEF Inv, DatabaseInv, DecisionsStayAuthenticated
    <2> QED
      BY <2>1, <2>2
  <1> QED
    BY <1>9, <1>10, <1>11, <1>12, <1>13, <1>14, <1>15, <1>17
       DEF DatabaseInv, DecisionsStayAuthenticated

(* A clear enters the record for the revision at hand, which is past that   *)
(* of every clear on record, at a time no earlier than theirs.              *)
LEMMA ClearStep ==
  ASSUME Inv, NEW p \in Procs, ClearKillSwitch(p)
  PROVE  DatabaseInv'
  <1> DEFINE subject == [NoSubject EXCEPT !.revision = kill.revision]
  <1>0. PICK row : row = [statement |-> held[p], verifiedAt |-> now]
    OBVIOUS
  <1>1. /\ held[p].purpose = "kill_switch_clear"
        /\ CanClear(p)
        /\ stored' = stored \cup {row}
        /\ kill' = [value |-> "clear", revision |-> kill.revision + 1,
                    evidence |-> held[p]]
        /\ UNCHANGED <<now, credential, approvals>>
    BY <1>0 DEF ClearKillSwitch, Answered, InsertOperatorStatement, clock
  <1>2. row.statement = held[p] /\ row.verifiedAt = now
    BY <1>0
  <1>3. kill.revision \in Nat
    BY DEF Inv, TypeOK
  <1>4. held[p].subject = subject /\ held[p].subject.revision = kill.revision
    BY <1>1, <1>3, SubjectForms DEF CanClear, Verifies
  <1>5. \A r \in stored : r.statement.purpose = "kill_switch_clear" =>
          /\ r.statement.subject.revision \in Nat
          /\ r.statement.subject.revision < kill.revision
    BY DEF Inv, DatabaseInv, ClearInv, TypeOK, StoredStatement, Statement,
       Subject
  <1>6. IsFiniteSet(stored)'
    BY <1>1, FS_AddElement DEF Inv, DatabaseInv
  <1>7. DecisionInv'
    BY <1>1, <1>2 DEF Inv, DatabaseInv, DecisionInv
  <1>8. ClearInv'
    <2> SUFFICES ASSUME NEW r \in stored',
                        r.statement.purpose = "kill_switch_clear"
                 PROVE  r.statement.subject.revision < kill'.revision
      BY DEF ClearInv
    <2>1. kill'.revision = kill.revision + 1
      BY <1>1
    <2>2. CASE r = row
      <3>1. r.statement.subject.revision = kill.revision
        BY <1>2, <1>4, <2>2
      <3> QED
        BY <1>3, <2>1, <3>1
    <2>3. CASE r \in stored
      BY <1>3, <1>5, <2>1, <2>3
    <2> QED
      BY <1>1, <2>2, <2>3
  <1>9. OneKeyForever'
    BY <1>1, <1>2 DEF CanClear, Verifies, Inv, DatabaseInv, OneKeyForever
  <1>10. ValidSignedClear'
    <2>1. Authenticated(row.statement, row.verifiedAt)'
      BY <1>1, <1>2, AuthenticatedStays DEF CanClear
    <2>2. kill'.revision >= 1 /\ kill'.revision - 1 = kill.revision
      BY <1>1, <1>3
    <2>3. Verifies(row.statement, "kill_switch_clear", subject, row.verifiedAt)
      BY <1>1, <1>2 DEF CanClear, Verifies
    <2>4. Verifies(row.statement, "kill_switch_clear",
                   [NoSubject EXCEPT !.revision = kill.revision - 1],
                   row.verifiedAt)'
      BY <1>1, <2>2, <2>3 DEF Verifies, Current, ExpiresAt
    <2> QED
      BY <1>1, <1>2, <2>1, <2>2, <2>4 DEF ValidSignedClear
  <1>11. ClearDoesNotDecay'
    BY <1>10 DEF ClearDoesNotDecay, KillActive
  <1>12. VerificationTimesFollowEvents'
    <2> SUFFICES ASSUME NEW r \in stored', NEW s \in stored',
                        r.statement.purpose = "kill_switch_clear",
                        s.statement.purpose = "kill_switch_clear",
                        r.statement.subject.revision
                          < s.statement.subject.revision
                 PROVE  r.verifiedAt <= s.verifiedAt
      BY DEF VerificationTimesFollowEvents
    <2>1. CASE r = row
      <3>1. r.statement.subject.revision = kill.revision
        BY <1>2, <1>4, <2>1
      <3>2. s # row /\ s \in stored
        BY <1>1, <1>3, <2>1, <3>1
      <3> QED
        BY <1>3, <1>5, <3>1, <3>2
    <2>2. CASE r \in stored /\ s = row
      BY <1>1, <1>2, <2>2 DEF CanClear, ObserveOperatorTime
    <2>3. CASE r \in stored /\ s \in stored
      BY <2>3 DEF Inv, DatabaseInv, VerificationTimesFollowEvents
    <2> QED
      BY <1>1, <2>1, <2>2, <2>3
  <1>13. OneDecisionPerApproval'
    BY <1>1, <1>2
       DEF Inv, DatabaseInv, DecisionsStayAuthenticated, OneDecisionPerApproval
  <1>14. ASSUME NEW a \in Approvals, approvals'[a].status \in Decisions
         PROVE  /\ approvals'[a].createdAt <= approvals'[a].decidedAt
                /\ DecisionAuthenticated(a)'
    BY <1>1, <1>14, DecisionStays
       DEF Inv, DatabaseInv, DecisionsStayAuthenticated
  <1> QED
    BY <1>6, <1>7, <1>8, <1>9, <1>11, <1>12, <1>13, <1>14
       DEF DatabaseInv, DecisionsStayAuthenticated

-----------------------------------------------------------------------------
LEMMA StepInv == Inv /\ [Next]_vars => Inv'
  <1> SUFFICES ASSUME Inv, [Next]_vars PROVE Inv'
    OBVIOUS
  <1>1. ASSUME UNCHANGED vars PROVE DatabaseInv'
    BY <1>1, KeptDatabase DEF vars
  <1>2. ASSUME NEW t \in Times, SetClock(t) PROVE DatabaseInv'
    BY <1>2, KeptDatabase DEF SetClock
  <1>3. ASSUME NEW p \in Procs,
               \/ EnsureOperatorEnrolled(p)
               \/ \E a \in Approvals, d \in Decisions :
                    SignApprovalDecision(p, a, d)
               \/ SignKillSwitchClear(p)
               \/ Fail(p)
        PROVE  DatabaseInv'
    BY <1>3, KeptDatabase
       DEF EnsureOperatorEnrolled, SignApprovalDecision, SignKillSwitchClear,
           Sign, Fail
  <1>4. DatabaseInv'
    BY <1>1, <1>2, <1>3, PersistApprovalStep, EngageStep, EnrollStep,
       AuthenticateStep, DecideStep, ClearStep DEF Next
  <1> QED
    BY <1>4, TypeStep, HeldStep DEF Inv

THEOREM Invariant == Spec => []Inv
  BY InitInv, StepInv, PTL DEF Spec

(* The state is well typed: what a process submits was signed as a whole.   *)
THEOREM TypeCorrect == Spec => []TypeOK
  <1>1. Inv => TypeOK
    BY DEF Inv
  <1> QED
    BY <1>1, Invariant, PTL

(* A cleared switch stays cleared until it is engaged (validSignedKill-     *)
(* SwitchClear): its evidence re-verifies at the time it was stored with,   *)
(* however long ago that is.                                                *)
THEOREM ClearsDoNotDecay == Spec => []ClearDoesNotDecay
  <1>1. Inv => ClearDoesNotDecay
    BY DEF Inv, DatabaseInv
  <1> QED
    BY <1>1, Invariant, PTL

(* A decided approval can be relied on for good                             *)
(* (requireAuthenticatedApprovalDecision), and has one decision on record.  *)
THEOREM DecisionsReverify == Spec => []DecisionsStayAuthenticated
  <1>1. Inv => DecisionsStayAuthenticated
    BY DEF Inv, DatabaseInv
  <1> QED
    BY <1>1, Invariant, PTL

(* Every statement on record was signed with the one enrolled key           *)
(* (enrollLocalOperator), however many processes race to enrol theirs.      *)
THEOREM OneKeyEnrolled == Spec => []OneKeyForever
  <1>1. Inv => OneKeyForever
    BY DEF Inv, DatabaseInv
  <1> QED
    BY <1>1, Invariant, PTL

(* The recorded times of clears follow the revisions they cleared           *)
(* (observeOperatorTime), although the clock may be set back.               *)
THEOREM ClearTimesFollowRevisions == Spec => []VerificationTimesFollowEvents
  <1>1. Inv => VerificationTimesFollowEvents
    BY DEF Inv, DatabaseInv
  <1> QED
    BY <1>1, Invariant, PTL
=============================================================================
