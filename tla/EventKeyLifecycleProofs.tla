------------------------ MODULE EventKeyLifecycleProofs ------------------------
(***************************************************************************)
(* Proofs about the event-key lifecycle, for every set of processes of      *)
(* which one may recover a stale lock, every set of event ids and every     *)
(* limit. The invariant says who holds the lock file, what the holder has   *)
(* verified that is still so, and which temporary file it may have.         *)
(***************************************************************************)
EXTENDS EventKeyLifecycle, TLAPS

(* A process inside the lease has its token in the lock file; the owner     *)
(* recorded there is the process itself, unless it is a recovery that has   *)
(* taken the lock over.                                                     *)
HolderInv ==
  \A p \in Procs : place[p] \in InLease =>
    /\ Owned(p)
    /\ place[p] = "create" => lock.owner = NoOwner
    /\ place[p] # "create" => lock.owner \in Procs
    /\ place[p] # "create" => lock.owner = p \/ p \in Recoverers
    /\ place[p] = "create" => lease[p].owner = p

LockInv == lock.token = 0 => lock.owner = NoOwner

(* What a holder has verified stays so until its commit.                    *)
HeadInv ==
  \A p \in Procs :
    /\ place[p] = "commit" => MayCommit(p) /\ head[p] = Len(chain)
    /\ place[p] \in {"stage", "link"} => chain # <<>> /\ head[p] = Len(chain)

(* The records of the chain are of one store.                               *)
ChainInv ==
  \A i, j \in 1..Len(chain) : chain[i].storeId = chain[j].storeId

(* No event is under a version that the chain has not reached; those of an  *)
(* unadopted directory are under version 1.                                 *)
EventInv == \A id \in Ids : events[id] <= 1 \/ events[id] <= Len(chain)

ReaderInv ==
  \A p \in Procs :
    place[p] = "parse" => found[p] <= 1 \/ found[p] <= Len(chain)

(* A holder about to commit or write has seen no temporary file, and a      *)
(* writer has no other than its own.                                        *)
TempInv ==
  \A p \in Procs :
    /\ place[p] \in {"commit", "stage"} => temps = {}
    /\ place[p] \in {"link", "unstage"} => temps = {lease[p].token}

(* A recovery never runs the steps of another mutation, and releases the    *)
(* lock only when it has seen a state record.                               *)
RecoverInv ==
  \A p \in Procs : work[p] = "recover" =>
    /\ place[p] \in {"create", "clean", "release", "unlink"}
    /\ place[p] \in {"release", "unlink"} => chain # <<>>

Inv ==
  /\ TypeOK
  /\ LeaseIsExclusive
  /\ HolderInv
  /\ LockInv
  /\ HeadInv
  /\ ChainInv
  /\ EventInv
  /\ ReaderInv
  /\ TempInv
  /\ RecoverInv
  /\ EventsStayReadable

(* Only a recovery takes over the lock of another process, and there is one.*)
OneRecoverer == \A p, q \in Recoverers : p = q

-----------------------------------------------------------------------------
LEMMA InitInv == Init => Inv
  BY ProcsAssumption
  DEF Init, Inv, TypeOK, LeaseIsExclusive, HolderInv, LockInv, HeadInv, ChainInv,
      EventInv, ReaderInv, TempInv, RecoverInv, EventsStayReadable, NoLock, LockFile,
      InLease, Places

(* A process inside the lease keeps the others out of it.                   *)
LEMMA Alone ==
  ASSUME Inv, NEW p \in Procs, place[p] \in InLease
  PROVE  \A q \in Procs \ {p} : place[q] \notin InLease
  BY DEF Inv, LeaseIsExclusive

LEMMA AcquireInv ==
  ASSUME Inv, NEW p \in Procs, AcquireStep(p)
  PROVE  Inv'
<1> USE DEF Inv, TypeOK, LeaseIsExclusive, HolderInv, LockInv, HeadInv, ChainInv,
            EventInv, ReaderInv, TempInv, RecoverInv, EventsStayReadable, LockFile,
            InLease, Places, Owned, files, MayCommit, NoEvents
<1>1. ASSUME NEW operation \in Mutations, CreateLock(p, operation)
      PROVE  Inv'
  <2>1. \A q \in Procs : place[q] \notin InLease
    BY <1>1 DEF CreateLock
  <2>2. QED BY <1>1, <2>1, ProcsAssumption DEF CreateLock, Mutations
<1>2. CASE RecordOwner(p)
  <2>1. \A q \in Procs \ {p} : place[q] \notin InLease
    BY <1>2, Alone DEF RecordOwner
  <2>2. Owned(p)
    BY <1>2 DEF RecordOwner
  <2>3. PICK next \in {"clean", "verify"} : place' = [place EXCEPT ![p] = next]
    BY <1>2, <2>2 DEF RecordOwner, Goto
  <2>4. /\ lock' = lease[p]
        /\ UNCHANGED <<created, files, work, lease, head, found>>
    BY <1>2, <2>2 DEF RecordOwner, Goto
  <2>5. TypeOK' /\ LeaseIsExclusive' /\ HolderInv' /\ LockInv'
    BY <1>2, <2>1, <2>3, <2>4, ProcsAssumption DEF RecordOwner
  <2>6. RecoverInv'
    <3>1. work[p] = "recover" => place'[p] = "clean"
      BY <1>2, <2>2 DEF RecordOwner, Goto
    <3>2. QED BY <1>2, <2>3, <2>4, <3>1 DEF RecordOwner
  <2>7. HeadInv' /\ ChainInv' /\ EventInv' /\ ReaderInv' /\ TempInv'
        /\ EventsStayReadable'
    BY <2>1, <2>3, <2>4
  <2>8. QED BY <2>5, <2>6, <2>7
<1>3. CASE CreationFails(p)
  <2>1. \A q \in Procs \ {p} : place[q] \notin InLease
    BY <1>3, Alone DEF CreationFails
  <2>2. QED BY <1>3, <2>1 DEF CreationFails, Leave, NoLock
<1>4. CASE FindFresh(p)
  BY <1>4 DEF FindFresh, Goto
<1>5. CASE FreshLocked(p)
  BY <1>5 DEF FreshLocked, Goto
<1>6. CASE ReportLocked(p)
  BY <1>6 DEF ReportLocked, Leave, NoLock
<1>7. QED
  BY <1>1, <1>2, <1>3, <1>4, <1>5, <1>6 DEF AcquireStep

LEMMA WriteInv ==
  ASSUME Inv, NEW p \in Procs,
         \/ Verify(p) \/ OperationFails(p) \/ StageEvent(p) \/ LinkFails(p)
         \/ UnstageEvent(p) \/ UnstageFails(p)
         \/ \E id \in Ids : LinkEvent(p, id)
  PROVE  Inv'
<1> USE DEF Inv, TypeOK, LeaseIsExclusive, HolderInv, LockInv, HeadInv, ChainInv,
            EventInv, ReaderInv, TempInv, RecoverInv, EventsStayReadable, LockFile,
            InLease, Places, Owned, files, MayCommit, NoEvents
<1>1. \A q \in Procs \ {p} : place[q] \notin InLease
  BY Alone DEF Verify, OperationFails, StageEvent, LinkFails, UnstageEvent,
               UnstageFails, LinkEvent
<1>2. CASE Verify(p)
  <2>1. PICK next \in {"commit", "stage"} :
          /\ place' = [place EXCEPT ![p] = next]
          /\ next = "commit" => MayCommit(p)
          /\ next = "stage" => chain # <<>>
    BY <1>2 DEF Verify
  <2>2. /\ head' = [head EXCEPT ![p] = Len(chain)]
        /\ temps = {}
        /\ UNCHANGED <<lock, created, files, work, lease, found>>
    BY <1>2 DEF Verify, Scans
  <2>3. TypeOK' /\ LeaseIsExclusive' /\ HolderInv' /\ LockInv'
    BY <1>1, <1>2, <2>1, <2>2 DEF Verify
  <2>4. HeadInv' /\ TempInv'
    BY <1>1, <2>1, <2>2
  <2>5. ChainInv' /\ EventInv' /\ ReaderInv' /\ EventsStayReadable'
    BY <2>1, <2>2
  <2>6. RecoverInv'
    BY <1>2, <2>1, <2>2 DEF Verify
  <2>7. QED BY <2>3, <2>4, <2>5, <2>6
<1>3. CASE OperationFails(p)
  BY <1>1, <1>3 DEF OperationFails, Goto
<1>4. CASE StageEvent(p)
  <2>1. temps' = {lease[p].token}
    BY <1>4 DEF StageEvent
  <2>2. QED BY <1>1, <1>4, <2>1 DEF StageEvent, Goto
<1>5. ASSUME NEW id \in Ids, LinkEvent(p, id)
      PROVE  Inv'
  <2>1. EventInv' /\ TypeOK'
    BY <1>5 DEF LinkEvent, Goto
  <2>2. LeaseIsExclusive' /\ HolderInv' /\ LockInv' /\ RecoverInv'
    BY <1>1, <1>5 DEF LinkEvent, Goto
  <2>3. HeadInv' /\ ChainInv' /\ ReaderInv' /\ TempInv' /\ EventsStayReadable'
    BY <1>1, <1>5 DEF LinkEvent, Goto
  <2>4. QED BY <2>1, <2>2, <2>3
<1>6. CASE LinkFails(p)
  BY <1>1, <1>6 DEF LinkFails, Goto
<1>7. CASE UnstageEvent(p)
  <2>1. temps' \subseteq Nat
    BY <1>7 DEF UnstageEvent
  <2>2. QED BY <1>1, <1>7, <2>1 DEF UnstageEvent, Goto
<1>8. CASE UnstageFails(p)
  BY <1>1, <1>8 DEF UnstageFails, Goto
<1>9. QED
  BY <1>2, <1>3, <1>4, <1>5, <1>6, <1>7, <1>8

LEMMA CommitInv ==
  ASSUME Inv, NEW p \in Procs, LinkRecord(p)
  PROVE  Inv'
<1> USE DEF Inv, TypeOK
<1>1. \A q \in Procs \ {p} : place[q] \notin InLease
  BY Alone DEF LinkRecord, InLease
<1>2. /\ chain' = Append(chain, NewRecord(p))
      /\ place' = [place EXCEPT ![p] = "release"]
      /\ UNCHANGED <<lock, created, events, temps, work, lease, head, found>>
  BY DEF LinkRecord, Goto
<1>3. /\ NewRecord(p) \in StateRecord
      /\ \A i \in 1..Len(chain) : chain[i].storeId = NewRecord(p).storeId
  <2>1. work[p] \in Operations /\ head[p] = Len(chain)
    BY DEF LinkRecord, HeadInv, MayCommit, Operations
  <2>2. head[p] # 0 => head[p] \in 1..Len(chain)
    BY <2>1
  <2>3. \A i \in 1..Len(chain) : chain[i] \in StateRecord
    OBVIOUS
  <2>4. QED BY <2>1, <2>2, <2>3 DEF NewRecord, StateRecord, LockFile, ChainInv
<1>4. /\ chain' \in Seq(StateRecord)
      /\ Len(chain') = Len(chain) + 1
      /\ \A i \in 1..Len(chain) : chain'[i] = chain[i]
      /\ chain'[Len(chain) + 1] = NewRecord(p)
  BY <1>2, <1>3
<1>5. TypeOK' /\ LeaseIsExclusive' /\ HolderInv' /\ LockInv'
  BY <1>1, <1>2, <1>4
  DEF LinkRecord, LeaseIsExclusive, HolderInv, LockInv, Owned, InLease, Places
<1>6. ChainInv'
  <2>1. \A i \in 1..Len(chain') : chain'[i].storeId = NewRecord(p).storeId
    <3>1. \A i \in 1..Len(chain') : i \in 1..Len(chain) \/ i = Len(chain) + 1
      BY <1>4
    <3>2. QED BY <1>3, <1>4, <3>1
  <2>2. QED BY <2>1 DEF ChainInv
<1>7. EventInv' /\ ReaderInv' /\ EventsStayReadable'
  BY <1>2, <1>4 DEF EventInv, ReaderInv, EventsStayReadable
<1>8. HeadInv' /\ TempInv'
  BY <1>1, <1>2 DEF HeadInv, TempInv, InLease
<1>9. RecoverInv'
  <2>1. work[p] # "recover"
    BY DEF LinkRecord, RecoverInv
  <2>2. chain' # <<>>
    BY <1>2, <1>4
  <2>3. QED BY <1>2, <2>1, <2>2 DEF RecoverInv
<1>10. QED BY <1>5, <1>6, <1>7, <1>8, <1>9

LEMMA ReleaseInv ==
  ASSUME Inv, NEW p \in Procs,
         ReleaseCheck(p) \/ ReleaseUnlink(p) \/ ReleaseFails(p)
  PROVE  Inv'
<1> USE DEF Inv, TypeOK, LeaseIsExclusive, HolderInv, LockInv, HeadInv, ChainInv,
            EventInv, ReaderInv, TempInv, RecoverInv, EventsStayReadable, LockFile,
            InLease, Places, Owned, files, MayCommit, NoEvents
<1>1. \A q \in Procs \ {p} : place[q] \notin InLease
  BY Alone DEF ReleaseCheck, ReleaseUnlink, ReleaseFails
<1>2. CASE ReleaseCheck(p)
  <2>1. Owned(p)
    BY <1>2 DEF ReleaseCheck
  <2>2. place' = [place EXCEPT ![p] = "unlink"]
        /\ UNCHANGED <<lock, created, files, work, lease, head, found>>
    BY <1>2, <2>1 DEF ReleaseCheck, Goto
  <2>3. TypeOK' /\ LeaseIsExclusive' /\ HolderInv' /\ LockInv'
    BY <1>1, <1>2, <2>2 DEF ReleaseCheck
  <2>4. RecoverInv'
    BY <1>2, <2>2 DEF ReleaseCheck
  <2>5. HeadInv' /\ ChainInv' /\ EventInv' /\ ReaderInv' /\ TempInv'
        /\ EventsStayReadable'
    BY <1>1, <2>2
  <2>6. QED BY <2>3, <2>4, <2>5
<1>3. CASE ReleaseUnlink(p)
  BY <1>1, <1>3 DEF ReleaseUnlink, Leave, NoLock
<1>4. CASE ReleaseFails(p)
  BY <1>1, <1>4 DEF ReleaseFails, Leave, NoLock
<1>5. QED
  BY <1>2, <1>3, <1>4

(* The owner of a lock that is taken over is down, so that only another     *)
(* recovery could hold it.                                                  *)
LEMMA DeadLockIsFree ==
  ASSUME Inv, OneRecoverer, NEW p \in Recoverers, AdoptLock(p)
  PROVE  \A q \in Procs : place[q] \notin InLease
<1>1. /\ p \in Procs /\ place[p] = "idle"
      /\ lock.owner \in Procs /\ place[lock.owner] = "down"
  BY ProcsAssumption DEF AdoptLock, Dead
<1>2. lock.owner # NoOwner
  BY <1>1, ProcsAssumption
<1>3. SUFFICES ASSUME NEW q \in Procs, place[q] \in InLease PROVE FALSE
  OBVIOUS
<1>4. lock.owner = q \/ q \in Recoverers
  BY <1>2, <1>3 DEF Inv, HolderInv
<1>5. QED
  BY <1>1, <1>3, <1>4 DEF OneRecoverer, InLease

LEMMA RecoveryInv ==
  ASSUME Inv, OneRecoverer, NEW p \in Procs, RecoveryStep(p)
  PROVE  Inv'
<1> USE DEF Inv, TypeOK, LeaseIsExclusive, HolderInv, LockInv, HeadInv, ChainInv,
            EventInv, ReaderInv, TempInv, RecoverInv, EventsStayReadable, LockFile,
            InLease, Places, Owned, files, MayCommit, NoEvents
<1>1. CASE p \in Recoverers /\ AdoptLock(p)
  <2>1. \A q \in Procs : place[q] \notin InLease
    BY <1>1, DeadLockIsFree, OneRecoverer
  <2>2. lock.token # 0 /\ lock.owner # NoOwner
    BY <1>1, ProcsAssumption DEF AdoptLock, Dead
  <2>3. QED BY <1>1, <2>1, <2>2 DEF AdoptLock, Mutations
<1>2. CASE RemoveTemp(p)
  <2>1. \A q \in Procs \ {p} : place[q] \notin InLease
    BY <1>2, Alone DEF RemoveTemp
  <2>2. QED BY <1>2, <2>1 DEF RemoveTemp
<1>3. CASE RecoverVerify(p)
  <2>1. \A q \in Procs \ {p} : place[q] \notin InLease
    BY <1>3, Alone DEF RecoverVerify
  <2>2. QED BY <1>3, <2>1 DEF RecoverVerify, Goto
<1>4. CASE RecoverFails(p)
  <2>1. \A q \in Procs \ {p} : place[q] \notin InLease
    BY <1>4, Alone DEF RecoverFails
  <2>2. QED BY <1>4, <2>1 DEF RecoverFails, Leave, NoLock
<1>5. QED
  BY <1>1, <1>2, <1>3, <1>4 DEF RecoveryStep

LEMMA OtherInv ==
  ASSUME Inv, NEW p \in Procs, ReadStep(p) \/ Crash(p) \/ Restart(p)
  PROVE  Inv'
<1> USE DEF Inv, TypeOK, LeaseIsExclusive, HolderInv, LockInv, HeadInv, ChainInv,
            EventInv, ReaderInv, TempInv, RecoverInv, EventsStayReadable, LockFile,
            InLease, Places, Owned, files, MayCommit, NoEvents, NoLock
<1>1. ASSUME NEW id \in Ids, ReadScan(p, id)
      PROVE  Inv'
  BY <1>1 DEF ReadScan
<1>2. CASE ReadParse(p)
  <2>1. Len(chain) \in Nat /\ Len(chain) >= 1
    BY <1>2 DEF ReadParse
  <2>2. QED BY <1>2, <2>1 DEF ReadParse
<1>3. CASE ReadEvent(p)
  BY <1>3 DEF ReadEvent, Leave
<1>4. CASE Crash(p)
  BY <1>4 DEF Crash, Leave
<1>5. CASE Restart(p)
  BY <1>5 DEF Restart, Goto
<1>6. QED
  BY <1>1, <1>2, <1>3, <1>4, <1>5 DEF ReadStep

LEMMA StepInv ==
  ASSUME Inv, OneRecoverer, [Next]_vars
  PROVE  Inv'
<1>1. ASSUME NEW p \in Procs, MutationStep(p)
      PROVE  Inv'
  BY <1>1, WriteInv, CommitInv, ReleaseInv DEF MutationStep
<1>2. CASE Next
  BY <1>1, <1>2, AcquireInv, RecoveryInv, OtherInv, OneRecoverer DEF Next
<1>3. CASE UNCHANGED vars
  BY <1>3
  DEF vars, Inv, TypeOK, LeaseIsExclusive, HolderInv, LockInv, HeadInv, ChainInv,
      EventInv, ReaderInv, TempInv, RecoverInv, EventsStayReadable, Owned, MayCommit,
      NoEvents
<1>4. QED BY <1>2, <1>3

LEMMA InvariantHolds ==
  ASSUME OneRecoverer
  PROVE  Spec => []Inv
<1>1. Inv /\ [Next]_vars => Inv'
  BY StepInv, OneRecoverer
<1>2. QED BY <1>1, InitInv, PTL DEF Spec

-----------------------------------------------------------------------------
(* The variables keep their types.                                          *)
THEOREM TypeCorrect ==
  ASSUME OneRecoverer
  PROVE  Spec => []TypeOK
<1>1. Inv => TypeOK
  BY DEF Inv
<1>2. QED BY <1>1, InvariantHolds, OneRecoverer, PTL

(* With one recovering process, no two processes are ever inside the lease, *)
(* although a recovery takes over the lock of a dead one (withMutationLease,*)
(* recoverStaleMutation).                                                   *)
THEOREM HolderIsAlone ==
  ASSUME OneRecoverer
  PROVE  Spec => []LeaseIsExclusive
<1>1. Inv => LeaseIsExclusive
  BY DEF Inv
<1>2. QED BY <1>1, InvariantHolds, OneRecoverer, PTL

(* An event that a read began with is under a version the reader has        *)
(* verified when it opens the file (read).                                  *)
THEOREM ReadersKeepUp ==
  ASSUME OneRecoverer
  PROVE  Spec => []EventsStayReadable
<1>1. Inv => EventsStayReadable
  BY DEF Inv
<1>2. QED BY <1>1, InvariantHolds, OneRecoverer, PTL

-----------------------------------------------------------------------------
(* Only a commit changes the chain and only the link of an event file the   *)
(* events.                                                                  *)
LEMMA WhoWrites ==
  ASSUME Inv, [Next]_vars, ~UNCHANGED <<chain, events>>
  PROVE  \E p \in Procs : LinkRecord(p) \/ \E id \in Ids : LinkEvent(p, id)
<1>1. PICK p \in Procs :
        AcquireStep(p) \/ MutationStep(p) \/ RecoveryStep(p) \/ ReadStep(p)
          \/ Crash(p) \/ Restart(p)
  BY DEF Next, vars
<1>2. MutationStep(p)
  BY <1>1
  DEF AcquireStep, CreateLock, RecordOwner, CreationFails, FindFresh,
      FreshLocked, ReportLocked, RecoveryStep, AdoptLock, RemoveTemp,
      RecoverVerify, RecoverFails, ReadStep, ReadScan, ReadParse, ReadEvent,
      Crash, Restart, files
<1>3. QED
  BY <1>2
  DEF MutationStep, Verify, OperationFails, StageEvent, LinkFails,
      UnstageEvent, UnstageFails, ReleaseCheck, ReleaseUnlink, ReleaseFails,
      files

(* A temporary event file without a writer stops every commit and every     *)
(* event write (scanEventDirectory).                                        *)
THEOREM OrphanStopsCommits ==
  ASSUME OneRecoverer
  PROVE  Spec => OrphanBlocksMutations
<1>1. ASSUME Inv, [Next]_vars
      PROVE  OrphanStep
  <2>1. SUFFICES ASSUME NEW t \in temps, Orphaned(t),
                        ~UNCHANGED <<chain, events>>
                 PROVE  FALSE
    BY DEF OrphanStep
  <2>2. PICK p \in Procs : LinkRecord(p) \/ \E id \in Ids : LinkEvent(p, id)
    BY <1>1, <2>1, WhoWrites
  <2>3. place[p] = "commit" \/ place[p] = "link"
    BY <2>2 DEF LinkRecord, LinkEvent
  <2>4. place[p] = "link" /\ temps = {lease[p].token}
    BY <1>1, <2>1, <2>3 DEF Inv, TempInv
  <2>5. QED BY <2>1, <2>4 DEF Orphaned
<1>2. Inv /\ [Next]_vars => [OrphanStep]_vars
  BY <1>1
<1>3. QED
  BY <1>2, InvariantHolds, OneRecoverer, PTL DEF Spec, OrphanBlocksMutations

(* Nobody but the writer removes the temporary file of a live writer        *)
(* (removeEventTemporaryFiles).                                             *)
THEOREM WritersAreSpared ==
  ASSUME OneRecoverer
  PROVE  Spec => RecoverySparesWriters
<1>1. ASSUME Inv, [Next]_vars
      PROVE  SpareStep
  <2>1. SUFFICES ASSUME NEW p \in Procs, place[p] \in {"link", "unstage"},
                        place'[p] = place[p]
                 PROVE  lease[p].token \in temps'
    BY DEF SpareStep
  <2>2. temps = {lease[p].token}
    BY <1>1, <2>1 DEF Inv, TempInv
  <2>3. \A q \in Procs \ {p} : place[q] \notin InLease
    BY <1>1, <2>1, Alone DEF InLease
  <2>4. ASSUME NEW q \in Procs,
               StageEvent(q) \/ UnstageEvent(q) \/ RemoveTemp(q)
        PROVE  FALSE
    BY <1>1, <2>1, <2>3, <2>4
    DEF StageEvent, UnstageEvent, RemoveTemp, Goto, InLease, Inv, TypeOK
  <2>5. UNCHANGED temps
    BY <1>1, <2>4
    DEF Next, vars, AcquireStep, CreateLock, RecordOwner, CreationFails,
        FindFresh, FreshLocked, ReportLocked, MutationStep, Verify,
        OperationFails, LinkRecord, LinkEvent, LinkFails, UnstageFails,
        ReleaseCheck, ReleaseUnlink, ReleaseFails, RecoveryStep, AdoptLock,
        RecoverVerify, RecoverFails, ReadStep, ReadScan, ReadParse, ReadEvent,
        Crash, Restart, files
  <2>6. QED BY <2>2, <2>5
<1>2. Inv /\ [Next]_vars => [SpareStep]_vars
  BY <1>1
<1>3. QED
  BY <1>2, InvariantHolds, OneRecoverer, PTL DEF Spec, RecoverySparesWriters

(* A lock that nobody holds and that recovery refuses stays for good        *)
(* (recoverStaleMutation).                                                  *)
THEOREM AbandonedLockStays ==
  ASSUME OneRecoverer
  PROVE  Spec => AbandonedLockBlocks
<1>1. ASSUME Inv, [Next]_vars
      PROVE  BlockedStep
  <2>1. SUFFICES ASSUME Abandoned, lock.owner = NoOwner \/ chain = <<>>
                 PROVE  lock' = lock
    BY DEF BlockedStep
  <2>2. ASSUME NEW p \in Procs,
               \/ \E operation \in Mutations : CreateLock(p, operation)
               \/ RecordOwner(p) \/ CreationFails(p) \/ ReleaseUnlink(p)
        PROVE  FALSE
    <3>1. lock.token # 0
      BY <2>1 DEF Abandoned
    <3>2. place[p] \in {"create", "unlink"}
      BY <2>2, <3>1 DEF CreateLock, RecordOwner, CreationFails, ReleaseUnlink
    <3>3. place[p] \in InLease /\ Owned(p)
      BY <1>1, <3>2 DEF Inv, HolderInv, InLease
    <3>4. place[p] = "unlink" /\ work[p] = "recover"
      BY <2>1, <3>2, <3>3 DEF Abandoned
    <3>5. lock.owner \in Procs /\ chain # <<>>
      BY <1>1, <3>3, <3>4 DEF Inv, HolderInv, RecoverInv
    <3>6. QED BY <2>1, <3>5, ProcsAssumption
  <2>3. QED
    BY <1>1, <2>2
    DEF Next, vars, AcquireStep, FindFresh, FreshLocked, ReportLocked,
        MutationStep, Verify, OperationFails, LinkRecord, StageEvent,
        LinkEvent, LinkFails, UnstageEvent, UnstageFails, ReleaseCheck,
        ReleaseFails, RecoveryStep, AdoptLock, RemoveTemp, RecoverVerify,
        RecoverFails, ReadStep, ReadScan, ReadParse, ReadEvent, Crash, Restart
<1>2. Inv /\ [Next]_vars => [BlockedStep]_vars
  BY <1>1
<1>3. QED
  BY <1>2, InvariantHolds, OneRecoverer, PTL DEF Spec, AbandonedLockBlocks

-----------------------------------------------------------------------------
LEMMA CommitRefines ==
  ASSUME Inv, NEW p \in Procs, LinkRecord(p)
  PROVE  KC!Genesis \/ KC!Rotate
<1>1. /\ chain' = Append(chain, NewRecord(p))
      /\ UNCHANGED events
      /\ MayCommit(p) /\ head[p] = Len(chain)
  BY DEF LinkRecord, Inv, HeadInv
<1>2. chain \in Seq(StateRecord)
  BY DEF Inv, TypeOK
<1>3. NoEvents <=> KC!NoEvents
  BY DEF NoEvents, KC!NoEvents
<1>4. CASE chain = <<>>
  <2>1. chain' = <<NewRecord(p)>>
    BY <1>1, <1>4
  <2>2. /\ chain'[1] = NewRecord(p)
        /\ chain' # <<>>
        /\ work[p] = IF NoEvents THEN "initialize" ELSE "adopt_legacy_v1"
    BY <1>1, <1>4, <2>1 DEF MayCommit
  <2>3. NewRecord(p) = [storeId |-> NewRecord(p).storeId, operation |-> work[p]]
    BY DEF NewRecord
  <2>4. KC!Genesis
    BY <1>1, <1>3, <1>4, <2>1, <2>2, <2>3 DEF KC!Genesis
  <2>5. QED BY <2>4
<1>5. CASE chain # <<>>
  <2>1. work[p] = "rotate" /\ Len(chain) \in 1..(MaxVersion - 1)
    BY <1>1, <1>5 DEF MayCommit
  <2>2. head[p] \in 1..Len(chain) /\ 1 \in 1..Len(chain) /\ head[p] # 0
    BY <1>1, <2>1
  <2>3. chain[head[p]].storeId = chain[1].storeId
    BY <2>2 DEF Inv, ChainInv
  <2>4. NewRecord(p) = [storeId |-> chain[1].storeId, operation |-> "rotate"]
    BY <2>1, <2>2, <2>3 DEF NewRecord
  <2>5. QED BY <1>1, <2>1, <2>4 DEF KC!Rotate
<1>6. QED BY <1>4, <1>5

(* With one recovering process, the files implement KeyChain: one genesis,  *)
(* versions one by one, events once and under the active version.           *)
THEOREM Refinement ==
  ASSUME OneRecoverer
  PROVE  Spec => ImplementsKeyChain
<1>1. Init => KC!ChainInit
  BY DEF Init, KC!ChainInit
<1>2. ASSUME Inv, [Next]_vars
      PROVE  [KC!ChainNext]_<<chain, events>>
  <2>1. SUFFICES ASSUME ~UNCHANGED <<chain, events>>
                 PROVE  KC!ChainNext
    OBVIOUS
  <2>2. PICK p \in Procs : LinkRecord(p) \/ \E id \in Ids : LinkEvent(p, id)
    BY <1>2, <2>1, WhoWrites
  <2>3. CASE LinkRecord(p)
    BY <1>2, <2>3, CommitRefines DEF KC!ChainNext
  <2>4. ASSUME NEW id \in Ids, LinkEvent(p, id)
        PROVE  KC!WriteEvent(id)
    BY <1>2, <2>4 DEF LinkEvent, Inv, HeadInv, KC!WriteEvent
  <2>5. QED BY <2>2, <2>3, <2>4 DEF KC!ChainNext
<1>3. QED
  BY <1>1, <1>2, InvariantHolds, OneRecoverer, PTL
  DEF Spec, ImplementsKeyChain, KC!ChainSpec
=============================================================================
