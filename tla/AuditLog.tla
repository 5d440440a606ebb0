------------------------------- MODULE AuditLog -------------------------------
(***************************************************************************)
(* The hash-chained audit log of packages/audit-log/audit.ts: a file that   *)
(* several processes append to and verify under a lock file, and the        *)
(* explicit recovery of a lock whose owner has died. Each await at which    *)
(* another process can come between two file operations ends an action.     *)
(*                                                                         *)
(* Abstractions: a process is its pid, so a restarted process is a reused   *)
(* pid; an inode is the number of the lock file created (its handle stays   *)
(* open as long as it is compared, so that it is not reused); a hash is the *)
(* number of the record it belongs to. Paths, modes and record contents are *)
(* valid. A call that throws before it has written anything is no step. The *)
(* size check after a write decides only which error is reported.           *)
(***************************************************************************)
EXTENDS Integers, Sequences

CONSTANTS Procs,
          Recoverers,   \* processes that run recoverStaleAuditMutation
          NoOwner,
          MaxEntries,   \* MAX_AUDIT_LOG_ENTRIES
          MaxLocks      \* bound: lock files ever created

ASSUME ProcsAssumption == Recoverers \subseteq Procs /\ NoOwner \notin Procs

ASSUME LimitsAssumption == MaxEntries \in Nat /\ MaxLocks \in Nat

VARIABLES
  lock,      \* the lock file: its inode (0 if there is none), recorded owner
  created,   \* inode of the newest lock file
  entries,   \* the complete records of the log
  torn,      \* the log ends in an incomplete line
  pc,
  lease,     \* the lock file a process has open, with the owner it read there
  head       \* number and last hash of the records a process has verified

vars == <<lock, created, entries, torn, pc, lease, head>>

NoFile == [inode |-> 0, owner |-> NoOwner]
LockFile == [inode : Nat, owner : Procs \cup {NoOwner}]
Genesis == 0
EmptyHead == [entries |-> 0, lastHash |-> Genesis]
Entry == [sequence : Nat, previousHash : Nat, hash : Nat]

Leased == {"create", "verify", "append", "release", "unlink"}
Recovery == {"recover", "recheck", "remove"}

TypeOK ==
  /\ lock \in LockFile
  /\ created \in Nat
  /\ entries \in Seq(Entry)
  /\ torn \in BOOLEAN
  /\ pc \in [Procs -> {"idle", "down"} \cup Leased \cup Recovery]
  /\ lease \in [Procs -> LockFile]
  /\ head \in [Procs -> [entries : Nat, lastHash : Nat]]

Init ==
  /\ lock = NoFile
  /\ created = 0
  /\ entries = <<>>
  /\ torn = FALSE
  /\ pc = [p \in Procs |-> "idle"]
  /\ lease = [p \in Procs |-> NoFile]
  /\ head = [p \in Procs |-> EmptyHead]

-----------------------------------------------------------------------------
(* Mutant: a record is chained to the one before its predecessor.           *)
LastPreviousHash(log) ==
  IF log = <<>> THEN Genesis ELSE log[Len(log)].previousHash

LastHash(log) == IF log = <<>> THEN Genesis ELSE log[Len(log)].hash

(* What readAndVerify accepts: whole lines that form one chain.             *)
Chained(log) ==
  \A i \in 1..Len(log) :
    /\ log[i].sequence = i - 1
    /\ log[i].previousHash = IF i = 1 THEN Genesis ELSE log[i - 1].hash

(* Mutant: an incomplete last line is skipped.                              *)
WholeLinesVerify == Chained(entries) /\ Len(entries) <= MaxEntries

LogVerifies == ~torn /\ Chained(entries) /\ Len(entries) <= MaxEntries

(* The lock path still names the file that p has open.                      *)
PathMatches(p) == lock.inode # 0 /\ lock.inode = lease[p].inode

Goto(p, place) ==
  /\ pc' = [pc EXCEPT ![p] = place]
  /\ lease' = IF place = "idle" THEN [lease EXCEPT ![p] = NoFile] ELSE lease
  /\ head' = IF place = "idle" THEN [head EXCEPT ![p] = EmptyHead] ELSE head

-----------------------------------------------------------------------------
(* Mutant: the lock file is created without O_EXCL.                         *)
CreateSharedLock(p) ==
  /\ pc[p] = "idle"
  /\ created < MaxLocks
  /\ created' = created + 1
  /\ lock' = [inode |-> created + 1, owner |-> NoOwner]
  /\ pc' = [pc EXCEPT ![p] = "create"]
  /\ lease' = [lease EXCEPT ![p] = [inode |-> created + 1, owner |-> p]]
  /\ UNCHANGED <<entries, torn, head>>

(* acquireMutationLease: exclusive creation, then the owner's record.       *)
CreateLock(p) ==
  /\ pc[p] = "idle"
  /\ lock.inode = 0
  /\ created < MaxLocks
  /\ created' = created + 1
  /\ lock' = [inode |-> created + 1, owner |-> NoOwner]
  /\ pc' = [pc EXCEPT ![p] = "create"]
  /\ lease' = [lease EXCEPT ![p] = [inode |-> created + 1, owner |-> p]]
  /\ UNCHANGED <<entries, torn, head>>

RecordOwner(p) ==
  /\ pc[p] = "create"
  /\ lock' = IF PathMatches(p) THEN lease[p] ELSE lock
  /\ Goto(p, IF PathMatches(p) THEN "verify" ELSE "idle")
  /\ UNCHANGED <<created, entries, torn>>

(* Its creation failed half way: the lock file stays.                       *)
CreationFails(p) ==
  /\ pc[p] = "create"
  /\ \/ lock' = IF PathMatches(p) THEN lease[p] ELSE lock
     \/ lock' = lock
  /\ Goto(p, "idle")
  /\ UNCHANGED <<created, entries, torn>>

(* Under the lease: append reads the log to its end and verifies it, and    *)
(* writes one record; verifyAuditLog, a log that does not verify and a full *)
(* one stop after the read.                                                 *)
VerifyLog(p) ==
  /\ pc[p] = "verify"
  /\ Goto(p, "release")
  /\ UNCHANGED <<lock, created, entries, torn>>

(* Mutant: the last sequence number is taken for the number of records.     *)
ReadHeadLastNumber(p) ==
  /\ pc[p] = "verify"
  /\ LogVerifies
  /\ Len(entries) < MaxEntries
  /\ head' = [head EXCEPT ![p] = [entries |-> Len(entries) - 1,
                                  lastHash |-> LastHash(entries)]]
  /\ pc' = [pc EXCEPT ![p] = "append"]
  /\ UNCHANGED <<lock, created, entries, torn, lease>>

ReadHead(p) ==
  /\ pc[p] = "verify"
  /\ LogVerifies
  /\ Len(entries) < MaxEntries
  /\ head' = [head EXCEPT ![p] = [entries |-> Len(entries),
                                  lastHash |-> LastHash(entries)]]
  /\ pc' = [pc EXCEPT ![p] = "append"]
  /\ UNCHANGED <<lock, created, entries, torn, lease>>

AppendRecord(p) ==
  /\ pc[p] = "append"
  /\ entries' = Append(entries, [sequence |-> head[p].entries,
                                 previousHash |-> head[p].lastHash,
                                 hash |-> Len(entries) + 1])
  /\ Goto(p, "release")
  /\ UNCHANGED <<lock, created, torn>>

(* The write stops short: the error path releases the lease all the same.   *)
AppendFails(p) ==
  /\ pc[p] = "append"
  /\ torn' = TRUE
  /\ Goto(p, "release")
  /\ UNCHANGED <<lock, created, entries>>

(* releaseMutationLease: compare, then unlink by path.                      *)
ReleaseCheck(p) ==
  /\ pc[p] = "release"
  /\ Goto(p, IF PathMatches(p) THEN "unlink" ELSE "idle")
  /\ UNCHANGED <<lock, created, entries, torn>>

ReleaseUnlink(p) ==
  /\ pc[p] = "unlink"
  /\ lock' = NoFile
  /\ Goto(p, "idle")
  /\ UNCHANGED <<created, entries, torn>>

-----------------------------------------------------------------------------
(* Mutant: any recorded owner counts as dead.                               *)
Recorded(owner) == owner \in Procs

(* recoverStaleAuditMutation: opens a complete lock file of a dead owner,   *)
(* verifies the log, compares owner and path again and unlinks by path.     *)
Dead(owner) == owner \in Procs /\ pc[owner] = "down"

RecoverOpen(p) ==
  /\ pc[p] = "idle"
  /\ Dead(lock.owner)
  /\ pc' = [pc EXCEPT ![p] = "recover"]
  /\ lease' = [lease EXCEPT ![p] = lock]
  /\ UNCHANGED <<lock, created, entries, torn, head>>

RecoverVerify(p) ==
  /\ pc[p] = "recover"
  /\ Goto(p, IF LogVerifies THEN "recheck" ELSE "idle")
  /\ UNCHANGED <<lock, created, entries, torn>>

StillStale(p) == Dead(lease[p].owner) /\ PathMatches(p)

RecoverRecheck(p) ==
  /\ pc[p] = "recheck"
  /\ Goto(p, IF StillStale(p) THEN "remove" ELSE "idle")
  /\ UNCHANGED <<lock, created, entries, torn>>

RecoverUnlink(p) ==
  /\ pc[p] = "remove"
  /\ lock' = NoFile
  /\ Goto(p, "idle")
  /\ UNCHANGED <<created, entries, torn>>

-----------------------------------------------------------------------------
(* A process dies anywhere, in a write with any part of the record written; *)
(* its lock stays. Its pid may be used again.                               *)
Crash(p) ==
  /\ pc[p] # "down"
  /\ torn' \in IF pc[p] = "append" THEN {torn, TRUE} ELSE {torn}
  /\ pc' = [pc EXCEPT ![p] = "down"]
  /\ lease' = [lease EXCEPT ![p] = NoFile]
  /\ head' = [head EXCEPT ![p] = EmptyHead]
  /\ UNCHANGED <<lock, created, entries>>

Restart(p) ==
  /\ pc[p] = "down"
  /\ Goto(p, "idle")
  /\ UNCHANGED <<lock, created, entries, torn>>

WriterStep(p) ==
  \/ CreateLock(p)
  \/ RecordOwner(p)
  \/ CreationFails(p)
  \/ VerifyLog(p)
  \/ ReadHead(p)
  \/ AppendRecord(p)
  \/ AppendFails(p)
  \/ ReleaseCheck(p)
  \/ ReleaseUnlink(p)

RecoveryStep(p) ==
  \/ RecoverOpen(p)
  \/ RecoverVerify(p)
  \/ RecoverRecheck(p)
  \/ RecoverUnlink(p)

Next ==
  \/ \E p \in Procs : WriterStep(p) \/ Crash(p) \/ Restart(p)
  \/ \E p \in Recoverers : RecoveryStep(p)

Spec == Init /\ [][Next]_vars

-----------------------------------------------------------------------------
(***************************************************************************)
(* Properties. They hold when at most one process recovers at a time.       *)
(***************************************************************************)

(* At most one process is inside the lease, whatever crashes and recoveries *)
(* came before (audit.ts withMutationLease).                                *)
MutualExclusion ==
  \A p, q \in Procs : pc[p] \in Leased /\ pc[q] \in Leased => p = q

(* The complete records always form one chain that is not longer than the   *)
(* limit, with no number used twice (audit.ts append).                      *)
ChainIntact == Chained(entries) /\ Len(entries) <= MaxEntries

(* While the owner of the lock file lives, no step of another process       *)
(* removes or replaces it (audit.ts recoverStaleAuditMutation).             *)
Owns(p) == pc[p] \in Leased /\ PathMatches(p)

KeepStep == \A p \in Procs : Owns(p) /\ pc'[p] = pc[p] => lock' = lock

LiveOwnerKeepsLease == [][KeepStep]_vars

(* A log that ends in an incomplete line is never written again: neither an *)
(* append nor a recovery repairs or extends it (audit.ts readAndVerify).    *)
SealedStep == torn => torn' /\ entries' = entries

TornLogIsSealed == [][SealedStep]_vars
=============================================================================
