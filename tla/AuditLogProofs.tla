---------------------------- MODULE AuditLogProofs ----------------------------
(***************************************************************************)
(* Proofs about the lock file of the audit log, for every set of processes  *)
(* of which one may recover a stale lock. The invariant says that a leased  *)
(* process owns the file at the lock path, and that a recovery which is     *)
(* about to unlink has found that file without an owner that lives.         *)
(***************************************************************************)
EXTENDS AuditLog, TLAPS

LockTypeOK ==
  /\ lock \in LockFile
  /\ created \in Nat
  /\ lock.inode <= created
  /\ pc \in [Procs -> {"idle", "down"} \cup Leased \cup Recovery]
  /\ lease \in [Procs -> LockFile]

(* A leased process has the file at the lock path open, and only an owner   *)
(* that is still creating it has not recorded itself.                       *)
OwnerInv ==
  \A p \in Procs : pc[p] \in Leased =>
    /\ PathMatches(p)
    /\ lease[p].owner = p
    /\ lock.owner = IF pc[p] = "create" THEN NoOwner ELSE p

(* A recovery knows the owner that the file it has open will always record. *)
RecoveryInv ==
  \A r \in Procs : pc[r] \in Recovery =>
    /\ r \in Recoverers
    /\ lease[r].owner \in Procs
    /\ lease[r].inode <= created
    /\ PathMatches(r) => lock.owner = lease[r].owner

(* Nobody is leased while a stale lock is about to be unlinked.             *)
RemovalInv ==
  \A r \in Procs : pc[r] = "remove" =>
    lock.inode # 0 /\ \A p \in Procs : pc[p] \notin Leased

Inv == LockTypeOK /\ MutualExclusion /\ OwnerInv /\ RecoveryInv /\ RemovalInv

-----------------------------------------------------------------------------
LEMMA InitInv == Init => Inv
  BY ProcsAssumption
  DEF Init, Inv, LockTypeOK, MutualExclusion, OwnerInv, RecoveryInv, RemovalInv,
      NoFile, LockFile, Leased, Recovery

LEMMA WriterInv ==
  ASSUME Inv, NEW p \in Procs, WriterStep(p)
  PROVE  Inv'
<1> USE DEF Inv, LockTypeOK, MutualExclusion, OwnerInv, RecoveryInv, RemovalInv,
            LockFile, Leased, Recovery, PathMatches
<1>1. CASE CreateLock(p)
  <2>1. \A q \in Procs : pc[q] \notin Leased /\ pc[q] # "remove"
    BY <1>1 DEF CreateLock
  <2>2. QED BY <1>1, <2>1, ProcsAssumption DEF CreateLock
<1>2. CASE RecordOwner(p)
  <2>1. PathMatches(p) /\ lock.owner = NoOwner
    BY <1>2 DEF RecordOwner
  <2>2. \A r \in Procs : pc[r] \in Recovery => ~PathMatches(r) /\ pc[r] # "remove"
    BY <1>2, <2>1, ProcsAssumption DEF RecordOwner
  <2>3. lock' = lease[p] /\ pc' = [pc EXCEPT ![p] = "verify"] /\ lease' = lease
    BY <1>2, <2>1 DEF RecordOwner, Goto
  <2>4. QED BY <1>2, <2>1, <2>2, <2>3 DEF RecordOwner
<1>3. CASE CreationFails(p)
  <2>1. PathMatches(p) /\ lock.owner = NoOwner
    BY <1>3 DEF CreationFails
  <2>2. \A r \in Procs : pc[r] \in Recovery => ~PathMatches(r) /\ pc[r] # "remove"
    BY <1>3, <2>1, ProcsAssumption DEF CreationFails
  <2>3. /\ lock' = lease[p] \/ lock' = lock
        /\ pc' = [pc EXCEPT ![p] = "idle"]
        /\ lease' = [lease EXCEPT ![p] = NoFile]
    BY <1>3, <2>1 DEF CreationFails, Goto
  <2>4. QED BY <1>3, <2>1, <2>2, <2>3 DEF CreationFails, NoFile
<1>4. CASE VerifyLog(p)
  BY <1>4 DEF VerifyLog, Goto
<1>5. CASE ReadHead(p)
  BY <1>5 DEF ReadHead
<1>6. CASE AppendRecord(p)
  BY <1>6 DEF AppendRecord, Goto
<1>7. CASE AppendFails(p)
  BY <1>7 DEF AppendFails, Goto
<1>8. CASE ReleaseCheck(p)
  BY <1>8 DEF ReleaseCheck, Goto
<1>9. CASE ReleaseUnlink(p)
  <2>1. \A q \in Procs : q # p => pc[q] \notin Leased /\ pc[q] # "remove"
    BY <1>9 DEF ReleaseUnlink
  <2>2. QED BY <1>9, <2>1 DEF ReleaseUnlink, Goto, NoFile
<1>10. QED
  BY <1>1, <1>2, <1>3, <1>4, <1>5, <1>6, <1>7, <1>8, <1>9 DEF WriterStep

(* Only a recovery unlinks the lock of another process, and there is one.   *)
OneRecoverer == \A p, q \in Recoverers : p = q

LEMMA RecovererInv ==
  ASSUME Inv, OneRecoverer, NEW p \in Recoverers, RecoveryStep(p)
  PROVE  Inv'
<1> p \in Procs BY ProcsAssumption
<1> USE DEF Inv, LockTypeOK, MutualExclusion, OwnerInv, RecoveryInv, RemovalInv,
            LockFile, Leased, Recovery, PathMatches
<1>1. CASE RecoverOpen(p)
  BY <1>1 DEF RecoverOpen, Dead
<1>2. CASE RecoverVerify(p)
  BY <1>2 DEF RecoverVerify, Goto, NoFile
<1>3. CASE RecoverRecheck(p)
  <2>1. StillStale(p) => \A q \in Procs : pc[q] \notin Leased
    BY <1>3, ProcsAssumption DEF RecoverRecheck, StillStale, Dead
  <2>2. QED BY <1>3, <2>1 DEF RecoverRecheck, StillStale, Goto, NoFile
<1>4. CASE RecoverUnlink(p)
  <2>1. \A q \in Procs : q # p => pc[q] # "remove" /\ pc[q] \notin Leased
    BY <1>4 DEF RecoverUnlink, OneRecoverer
  <2>2. QED BY <1>4, <2>1 DEF RecoverUnlink, Goto, NoFile
<1>5. QED
  BY <1>1, <1>2, <1>3, <1>4 DEF RecoveryStep

LEMMA FailureInv ==
  ASSUME Inv, NEW p \in Procs, Crash(p) \/ Restart(p)
  PROVE  Inv'
<1> USE DEF Inv, LockTypeOK, MutualExclusion, OwnerInv, RecoveryInv, RemovalInv,
            LockFile, Leased, Recovery, PathMatches, NoFile
<1>1. CASE Crash(p)
  BY <1>1 DEF Crash
<1>2. CASE Restart(p)
  BY <1>2 DEF Restart, Goto
<1>3. QED BY <1>1, <1>2

LEMMA StepInv ==
  ASSUME Inv, OneRecoverer, [Next]_vars
  PROVE  Inv'
<1>1. CASE Next
  BY <1>1, WriterInv, RecovererInv, FailureInv DEF Next
<1>2. CASE UNCHANGED vars
  BY <1>2 DEF vars, Inv, LockTypeOK, MutualExclusion, OwnerInv, RecoveryInv,
              RemovalInv, PathMatches
<1>3. QED BY <1>1, <1>2

LEMMA InvariantHolds ==
  ASSUME OneRecoverer
  PROVE  Spec => []Inv
<1>1. Inv /\ [Next]_vars => Inv'
  BY StepInv, OneRecoverer
<1>2. QED BY <1>1, InitInv, PTL DEF Spec

(* With one recovering process, no two processes are ever inside the lease, *)
(* whoever dies, restarts or removes a stale lock (withMutationLease).      *)
THEOREM LeaseIsExclusive ==
  ASSUME OneRecoverer
  PROVE  Spec => []MutualExclusion
<1>1. Inv => MutualExclusion
  BY DEF Inv
<1>2. QED BY <1>1, InvariantHolds, OneRecoverer, PTL

-----------------------------------------------------------------------------
LEMMA StepKeepsLease ==
  ASSUME Inv, OneRecoverer, [Next]_vars
  PROVE  KeepStep
<1> SUFFICES ASSUME NEW p \in Procs, Owns(p), pc'[p] = pc[p]
             PROVE  lock' = lock
  BY DEF KeepStep
<1> USE DEF Owns, PathMatches, Inv, MutualExclusion, LockTypeOK
<1>1. ASSUME NEW q \in Procs, WriterStep(q)
      PROVE  lock' = lock
  <2>1. CASE CreateLock(q)
    BY <2>1 DEF CreateLock
  <2>2. CASE RecordOwner(q)
    BY <2>2 DEF RecordOwner, Goto, Leased
  <2>3. CASE CreationFails(q)
    BY <2>3 DEF CreationFails, Goto, Leased
  <2>4. CASE ReleaseUnlink(q)
    BY <2>4 DEF ReleaseUnlink, Goto, Leased
  <2>5. QED
    BY <1>1, <2>1, <2>2, <2>3, <2>4
    DEF WriterStep, VerifyLog, ReadHead, AppendRecord, AppendFails, ReleaseCheck
<1>2. ASSUME NEW q \in Recoverers, RecoveryStep(q)
      PROVE  lock' = lock
  <2>1. ~RecoverUnlink(q)
    BY ProcsAssumption DEF RecoverUnlink, RemovalInv
  <2>2. QED
    BY <1>2, <2>1
    DEF RecoveryStep, RecoverOpen, RecoverVerify, RecoverRecheck
<1>3. QED
  BY <1>1, <1>2 DEF Next, Crash, Restart, vars

(* With one recovering process, nobody removes or replaces the lock file of *)
(* an owner that is alive (recoverStaleAuditMutation, releaseMutationLease).*)
THEOREM OwnerIsNeverRobbed ==
  ASSUME OneRecoverer
  PROVE  Spec => LiveOwnerKeepsLease
<1>1. Inv /\ [Next]_vars => [KeepStep]_vars
  BY StepKeepsLease, OneRecoverer
<1>2. QED BY <1>1, InvariantHolds, OneRecoverer, PTL DEF Spec, LiveOwnerKeepsLease

-----------------------------------------------------------------------------
(* The contents of the log. Only a leased process writes, so that what it   *)
(* verified is still the log when it appends.                               *)
ChainTypeOK ==
  /\ entries \in Seq(Entry)
  /\ torn \in BOOLEAN
  /\ head \in [Procs -> [entries : Nat, lastHash : Nat]]

HeadInv ==
  \A p \in Procs : pc[p] = "append" =>
    /\ ~torn
    /\ Len(entries) < MaxEntries
    /\ head[p] = [entries |-> Len(entries), lastHash |-> LastHash(entries)]

ChainInv == ChainTypeOK /\ HeadInv /\ ChainIntact

LEMMA InitChain == Init => ChainInv
<1> SUFFICES ASSUME Init
             PROVE  ChainInv
  OBVIOUS
<1>1. entries = <<>> /\ Len(entries) = 0 /\ entries \in Seq(Entry)
  BY DEF Init
<1>2. ChainTypeOK
  BY <1>1 DEF Init, ChainTypeOK, EmptyHead, Genesis
<1>3. HeadInv
  BY DEF Init, HeadInv
<1>4. ChainIntact
  BY <1>1, LimitsAssumption DEF ChainIntact, Chained
<1> QED
  BY <1>2, <1>3, <1>4 DEF ChainInv

(* The last hash of a log is a number.                                      *)
LEMMA LastHashType ==
  ASSUME NEW log \in Seq(Entry)
  PROVE  LastHash(log) \in Nat
<1>1. CASE log = <<>>
  BY <1>1 DEF LastHash, Genesis
<1>2. CASE log # <<>>
  <2>1. log[Len(log)] \in Entry
    BY <1>2
  <2> QED
    BY <1>2, <2>1 DEF LastHash, Entry
<1> QED
  BY <1>1, <1>2

(* A record that continues the verified chain makes a longer chain.         *)
LEMMA AppendKeepsChain ==
  ASSUME NEW log \in Seq(Entry), Chained(log), NEW hash \in Nat
  PROVE  LET record == [sequence |-> Len(log),
                        previousHash |-> LastHash(log), hash |-> hash]
         IN record \in Entry /\ Chained(Append(log, record))
<1> DEFINE record == [sequence |-> Len(log),
                      previousHash |-> LastHash(log), hash |-> hash]
           longer == Append(log, record)
<1>1. record \in Entry
  BY LastHashType DEF Entry
<1>2. Len(longer) = Len(log) + 1
  OBVIOUS
<1>3. \A i \in 1..Len(log) : longer[i] = log[i]
  OBVIOUS
<1>4. longer[Len(log) + 1] = record
  OBVIOUS
<1>5. ASSUME NEW i \in 1..Len(longer)
      PROVE  /\ longer[i].sequence = i - 1
             /\ longer[i].previousHash =
                  IF i = 1 THEN Genesis ELSE longer[i - 1].hash
  <2>1. CASE i \in 1..Len(log)
    BY <2>1, <1>3 DEF Chained
  <2>2. CASE i = Len(log) + 1
    <3>1. i = 1 <=> log = <<>>
      BY <2>2
    <3>2. i # 1 => longer[i - 1] = log[Len(log)]
      BY <2>2, <1>3
    <3> QED
      BY <2>2, <1>4, <3>1, <3>2 DEF LastHash
  <2> QED
    BY <1>2, <2>1, <2>2
<1> QED
  BY <1>1, <1>5 DEF Chained

(* What a step does to the log: nothing, one record on top of a verified    *)
(* log, or half a record.                                                   *)
Written(p) ==
  /\ pc[p] = "append"
  /\ entries' = Append(entries, [sequence |-> head[p].entries,
                                 previousHash |-> head[p].lastHash,
                                 hash |-> Len(entries) + 1])
  /\ torn' = torn
  /\ pc'[p] = "release"

HalfWritten(p) ==
  /\ pc[p] = "append"
  /\ UNCHANGED entries
  /\ torn' = TRUE
  /\ pc'[p] # "append"

Verified(p) ==
  /\ LogVerifies
  /\ Len(entries) < MaxEntries
  /\ UNCHANGED <<entries, torn>>
  /\ head'[p] = [entries |-> Len(entries), lastHash |-> LastHash(entries)]

NotWritten(p) ==
  /\ UNCHANGED <<entries, torn>>
  /\ pc'[p] # "append"

LEMMA StepWrites ==
  ASSUME LockTypeOK, ChainTypeOK, NEW p \in Procs,
         WriterStep(p) \/ Crash(p) \/ Restart(p) \/ RecoveryStep(p)
  PROVE  /\ Written(p) \/ HalfWritten(p) \/ Verified(p) \/ NotWritten(p)
         /\ \A q \in Procs \ {p} : pc'[q] = pc[q] /\ head'[q] = head[q]
         /\ head' \in [Procs -> [entries : Nat, lastHash : Nat]]
<1> USE DEF LockTypeOK, ChainTypeOK, Written, HalfWritten, Verified,
            NotWritten, EmptyHead, Genesis
<1>1. CASE CreateLock(p)
  BY <1>1 DEF CreateLock
<1>2. CASE RecordOwner(p)
  BY <1>2 DEF RecordOwner, Goto
<1>3. CASE CreationFails(p)
  BY <1>3 DEF CreationFails, Goto
<1>4. CASE VerifyLog(p)
  BY <1>4 DEF VerifyLog, Goto
<1>5. CASE ReadHead(p)
  BY <1>5, LastHashType DEF ReadHead
<1>6. CASE AppendRecord(p)
  BY <1>6 DEF AppendRecord, Goto
<1>7. CASE AppendFails(p)
  BY <1>7 DEF AppendFails, Goto
<1>8. CASE ReleaseCheck(p)
  BY <1>8 DEF ReleaseCheck, Goto
<1>9. CASE ReleaseUnlink(p)
  BY <1>9 DEF ReleaseUnlink, Goto
<1>10. CASE Crash(p)
  BY <1>10 DEF Crash
<1>11. CASE Restart(p)
  BY <1>11 DEF Restart, Goto
<1>12. CASE RecoverOpen(p)
  BY <1>12 DEF RecoverOpen
<1>13. CASE RecoverVerify(p)
  BY <1>13 DEF RecoverVerify, Goto
<1>14. CASE RecoverRecheck(p)
  BY <1>14 DEF RecoverRecheck, Goto
<1>15. CASE RecoverUnlink(p)
  BY <1>15 DEF RecoverUnlink, Goto
<1> QED
  BY <1>1, <1>2, <1>3, <1>4, <1>5, <1>6, <1>7, <1>8, <1>9, <1>10, <1>11,
     <1>12, <1>13, <1>14, <1>15 DEF WriterStep, RecoveryStep

LEMMA StepChain ==
  ASSUME Inv, ChainInv, [Next]_vars
  PROVE  ChainInv'
<1>1. CASE UNCHANGED vars
  BY <1>1 DEF vars, ChainInv, ChainTypeOK, HeadInv, ChainIntact
<1>2. ASSUME NEW p \in Procs,
             WriterStep(p) \/ Crash(p) \/ Restart(p) \/ RecoveryStep(p)
      PROVE  ChainInv'
  <2>1. /\ Written(p) \/ HalfWritten(p) \/ Verified(p) \/ NotWritten(p)
        /\ \A q \in Procs \ {p} : pc'[q] = pc[q] /\ head'[q] = head[q]
        /\ head' \in [Procs -> [entries : Nat, lastHash : Nat]]
    BY <1>2, StepWrites DEF Inv, ChainInv
  <2>2. pc[p] = "append" => \A q \in Procs \ {p} : pc[q] # "append"
    BY DEF Inv, MutualExclusion, Leased
  <2> USE DEF ChainInv, ChainTypeOK, HeadInv, ChainIntact
  <2>3. CASE Written(p)
    <3>1. entries' = Append(entries, [sequence |-> Len(entries),
                                      previousHash |-> LastHash(entries),
                                      hash |-> Len(entries) + 1])
      BY <2>3 DEF Written
    <3>2. entries' \in Seq(Entry) /\ Chained(entries')
      BY <3>1, AppendKeepsChain
    <3>3. Len(entries') <= MaxEntries
      BY <2>3, <3>1, LimitsAssumption DEF Written
    <3> QED
      BY <2>1, <2>2, <2>3, <3>2, <3>3 DEF Written
  <2>4. CASE HalfWritten(p)
    BY <2>1, <2>2, <2>4 DEF HalfWritten
  <2>5. CASE Verified(p)
    BY <2>1, <2>5 DEF Verified, LogVerifies
  <2>6. CASE NotWritten(p)
    BY <2>1, <2>6 DEF NotWritten
  <2> QED
    BY <2>1, <2>3, <2>4, <2>5, <2>6
<1> QED
  BY <1>1, <1>2, ProcsAssumption DEF Next

LEMMA ChainHolds ==
  ASSUME OneRecoverer
  PROVE  Spec => [](Inv /\ ChainInv)
<1>1. Spec => []Inv
  BY InvariantHolds, OneRecoverer
<1>2. Inv /\ ChainInv /\ [Next]_vars => ChainInv'
  BY StepChain
<1> QED
  BY <1>1, <1>2, InitChain, PTL DEF Spec

(* With one recovering process every variable keeps its type.               *)
THEOREM TypeCorrect ==
  ASSUME OneRecoverer
  PROVE  Spec => []TypeOK
<1>1. Inv /\ ChainInv => TypeOK
  BY DEF Inv, LockTypeOK, ChainInv, ChainTypeOK, TypeOK
<1> QED
  BY <1>1, ChainHolds, OneRecoverer, PTL

(* With one recovering process the complete records are one chain without a *)
(* gap or a repeated number, whoever crashes where (append).                *)
THEOREM RecordsAreChained ==
  ASSUME OneRecoverer
  PROVE  Spec => []ChainIntact
<1>1. Inv /\ ChainInv => ChainIntact
  BY DEF ChainInv
<1> QED
  BY <1>1, ChainHolds, OneRecoverer, PTL

LEMMA StepSeals ==
  ASSUME Inv, ChainInv, [Next]_vars
  PROVE  SealedStep
<1> SUFFICES ASSUME torn
             PROVE  torn' /\ entries' = entries
  BY DEF SealedStep
<1>1. \A p \in Procs : pc[p] # "append"
  BY DEF ChainInv, HeadInv
<1>2. ASSUME NEW p \in Procs,
             WriterStep(p) \/ Crash(p) \/ Restart(p) \/ RecoveryStep(p)
      PROVE  torn' /\ entries' = entries
  BY <1>1, <1>2, StepWrites
  DEF Inv, ChainInv, Written, HalfWritten, Verified, NotWritten
<1> QED
  BY <1>2, ProcsAssumption DEF Next, vars

(* With one recovering process a log that ends in half a record is never    *)
(* written again (readAndVerify, append).                                   *)
THEOREM TornLogStaysSealed ==
  ASSUME OneRecoverer
  PROVE  Spec => TornLogIsSealed
<1>1. Inv /\ ChainInv /\ [Next]_vars => [SealedStep]_vars
  BY StepSeals
<1> QED
  BY <1>1, ChainHolds, OneRecoverer, PTL DEF Spec, TornLogIsSealed
=============================================================================
