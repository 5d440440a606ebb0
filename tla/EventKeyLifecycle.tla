--------------------------- MODULE EventKeyLifecycle ---------------------------
(***************************************************************************)
(* The event-key lifecycle of packages/event-key-lifecycle/lifecycle.ts and *)
(* the event files that packages/event-store/store.ts writes for it:        *)
(* processes that initialise, adopt, rotate, write and read in one          *)
(* directory under a lock file that carries a token, and the explicit       *)
(* recovery that takes over the lock of a dead process.                     *)
(*                                                                         *)
(* Abstractions: a process is its pid, so that a restarted process is a     *)
(* reused pid, and runs one operation at a time (serialize); a token is the *)
(* number of the lock file created; a state record is its store and its     *)
(* operation, since its other fields follow from its revision, and the file *)
(* names of the chain are 1..Len(chain). Keys, options, modes and contents  *)
(* are valid: what is not makes the operation fail at its place (a Fails    *)
(* action), and a call that fails before its first write is no step. A      *)
(* temporary state record is tolerated everywhere and is not a variable.    *)
(***************************************************************************)
EXTENDS Integers, Sequences

CONSTANTS Procs,
          Recoverers,   \* processes that run recoverStaleMutation
          NoOwner,
          Ids,          \* event ids
          MaxVersion,   \* MAX_EVENT_KEY_VERSION
          MaxLocks      \* bound: lock files ever created

ASSUME ProcsAssumption == Recoverers \subseteq Procs /\ NoOwner \notin Procs

ASSUME LimitsAssumption == MaxVersion \in Nat /\ MaxLocks \in Nat

VARIABLES
  lock,      \* the lock file: its token (0 if there is none), recorded owner
  created,   \* token of the newest lock file
  chain,     \* the state records
  events,    \* key version each event is encrypted under, 0 if there is none
  temps,     \* temporary event files, by the token they were written under
  place,
  work,      \* the operation a process runs
  lease,     \* the lock a process holds
  head,      \* active version the operation has verified
  found      \* key version of the event a reader is after

files == <<chain, events, temps>>
vars == <<lock, created, chain, events, temps, place, work, lease, head, found>>

KC == INSTANCE KeyChain

NoLock == [token |-> 0, owner |-> NoOwner]
LockFile == [token : Nat, owner : Procs \cup {NoOwner}]
Operations == {"initialize", "adopt_legacy_v1", "rotate"}
StateRecord == [storeId : Nat, operation : Operations]
Mutations == Operations \cup {"write", "recover"}

InLease == {"create", "verify", "commit", "stage", "link", "unstage",
            "clean", "release", "unlink"}
Places == {"idle", "down", "fresh", "locked", "parse", "read"} \cup InLease

TypeOK ==
  /\ lock \in LockFile
  /\ created \in Nat
  /\ chain \in Seq(StateRecord)
  /\ events \in [Ids -> Nat]
  /\ temps \subseteq Nat
  /\ place \in [Procs -> Places]
  /\ work \in [Procs -> Mutations \cup {"none"}]
  /\ lease \in [Procs -> LockFile]
  /\ head \in [Procs -> Nat]
  /\ found \in [Procs -> Nat]

Init ==
  /\ lock = NoLock
  /\ created = 0
  /\ chain = <<>>
  /\ events \in [Ids -> {0, 1}]
  /\ temps = {}
  /\ place = [p \in Procs |-> "idle"]
  /\ work = [p \in Procs |-> "none"]
  /\ lease = [p \in Procs |-> NoLock]
  /\ head = [p \in Procs |-> 0]
  /\ found = [p \in Procs |-> 0]

-----------------------------------------------------------------------------
NoEvents == \A id \in Ids : events[id] = 0

(* assertOwnedMutationLease: the lock file records the token of the lease.  *)
Owned(p) == lock.token # 0 /\ lock.token = lease[p].token

Goto(p, next) ==
  /\ place' = [place EXCEPT ![p] = next]
  /\ UNCHANGED <<work, lease, head, found>>

Leave(p, next) ==
  /\ place' = [place EXCEPT ![p] = next]
  /\ work' = [work EXCEPT ![p] = "none"]
  /\ lease' = [lease EXCEPT ![p] = NoLock]
  /\ head' = [head EXCEPT ![p] = 0]
  /\ found' = [found EXCEPT ![p] = 0]

-----------------------------------------------------------------------------
(* acquireMutationLease: exclusive creation, then the record of owner and   *)
(* token. A caller that finds the file there already fails without a step.  *)
CreateLock(p, operation) ==
  /\ \/ place[p] = "idle"
     \/ place[p] = "fresh" /\ operation = "initialize"
  /\ operation = "recover" => p \in Recoverers
  /\ lock.token = 0
  /\ created < MaxLocks
  /\ created' = created + 1
  /\ lock' = [token |-> created + 1, owner |-> NoOwner]
  /\ place' = [place EXCEPT ![p] = "create"]
  /\ work' = [work EXCEPT ![p] = operation]
  /\ lease' = [lease EXCEPT ![p] = [token |-> created + 1, owner |-> p]]
  /\ UNCHANGED <<files, head, found>>

RecordOwner(p) ==
  /\ place[p] = "create"
  /\ IF Owned(p)
       THEN /\ lock' = lease[p]
            /\ Goto(p, IF work[p] = "recover" THEN "clean" ELSE "verify")
       ELSE /\ Leave(p, "idle")
            /\ UNCHANGED lock
  /\ UNCHANGED <<created, files>>

(* Its creation failed half way: the lock file stays.                       *)
CreationFails(p) ==
  /\ place[p] = "create"
  /\ lock' \in IF Owned(p) THEN {lock, lease[p]} ELSE {lock}
  /\ Leave(p, "idle")
  /\ UNCHANGED <<created, files>>

(* openOrInitializeFresh finds no state record; it is turned away when the  *)
(* lock is taken by then.                                                   *)
FindFresh(p) ==
  /\ place[p] = "idle"
  /\ chain = <<>>
  /\ Goto(p, "fresh")
  /\ UNCHANGED <<lock, created, files>>

FreshLocked(p) ==
  /\ place[p] = "fresh"
  /\ lock.token # 0
  /\ Goto(p, "locked")
  /\ UNCHANGED <<lock, created, files>>

ReportLocked(p) ==
  /\ place[p] = "locked"
  /\ Leave(p, "idle")
  /\ UNCHANGED <<lock, created, files>>

-----------------------------------------------------------------------------
(* Mutant: a scan under the lease ignores temporary event files.            *)
ScansAnyTemps(p) == Owned(p)

(* scanEventDirectory under the lease.                                      *)
Scans(p) == Owned(p) /\ temps = {}

(* Mutant: initialisation does not look at the events.                      *)
MayCommitOverEvents(p) ==
  \/ work[p] \in {"initialize", "adopt_legacy_v1"} /\ chain = <<>>
  \/ work[p] = "rotate" /\ Len(chain) \in 1..(MaxVersion - 1)

(* Genesis needs an empty chain, and no events or events to adopt; rotation *)
(* goes from the verified head to the next version.                         *)
MayCommit(p) ==
  \/ work[p] = "initialize" /\ chain = <<>> /\ NoEvents
  \/ work[p] = "adopt_legacy_v1" /\ chain = <<>> /\ ~NoEvents
  \/ work[p] = "rotate" /\ Len(chain) \in 1..(MaxVersion - 1)

(* Mutant: the head is the record before the last.                          *)
VerifyPrevious(p) ==
  /\ place[p] = "verify"
  /\ Scans(p)
  /\ \/ MayCommit(p) /\ place' = [place EXCEPT ![p] = "commit"]
     \/ /\ work[p] = "write"
        /\ chain # <<>>
        /\ place' = [place EXCEPT ![p] = "stage"]
  /\ head' = [head EXCEPT ![p] = Len(chain) - 1]
  /\ UNCHANGED <<lock, created, files, work, lease, found>>

(* verifyState under the lease, and the conditions of the operation.        *)
Verify(p) ==
  /\ place[p] = "verify"
  /\ Scans(p)
  /\ \/ MayCommit(p) /\ place' = [place EXCEPT ![p] = "commit"]
     \/ /\ work[p] = "write"
        /\ chain # <<>>
        /\ place' = [place EXCEPT ![p] = "stage"]
  /\ head' = [head EXCEPT ![p] = Len(chain)]
  /\ UNCHANGED <<lock, created, files, work, lease, found>>

(* Any error before the commit: withMutationLease still releases.           *)
OperationFails(p) ==
  /\ place[p] \in {"verify", "commit", "stage"}
  /\ Goto(p, "release")
  /\ UNCHANGED <<lock, created, files>>

NewRecord(p) ==
  [storeId |-> IF head[p] = 0 THEN lease[p].token ELSE chain[head[p]].storeId,
   operation |-> work[p]]

(* commitRecord: the hard link to the name of the next revision. An error   *)
(* after it is reported, but the record stays.                              *)
LinkRecord(p) ==
  /\ place[p] = "commit"
  /\ Len(chain) = head[p]
  /\ chain' = Append(chain, NewRecord(p))
  /\ Goto(p, "release")
  /\ UNCHANGED <<lock, created, events, temps>>

-----------------------------------------------------------------------------
(* EncryptedEventStore.write under the verified head.                       *)
StageEvent(p) ==
  /\ place[p] = "stage"
  /\ temps' = temps \cup {lease[p].token}
  /\ Goto(p, "link")
  /\ UNCHANGED <<lock, created, chain, events>>

LinkEvent(p, id) ==
  /\ place[p] = "link"
  /\ events[id] = 0
  /\ events' = [events EXCEPT ![id] = head[p]]
  /\ Goto(p, "unstage")
  /\ UNCHANGED <<lock, created, chain, temps>>

(* The id is taken, or an error before the link.                            *)
LinkFails(p) ==
  /\ place[p] = "link"
  /\ Goto(p, "unstage")
  /\ UNCHANGED <<lock, created, files>>

UnstageEvent(p) ==
  /\ place[p] = "unstage"
  /\ temps' = temps \ {lease[p].token}
  /\ Goto(p, "release")
  /\ UNCHANGED <<lock, created, chain, events>>

UnstageFails(p) ==
  /\ place[p] = "unstage"
  /\ Goto(p, "release")
  /\ UNCHANGED <<lock, created, files>>

-----------------------------------------------------------------------------
(* releaseMutationLease: compare, then unlink by path.                      *)
ReleaseCheck(p) ==
  /\ place[p] = "release"
  /\ IF Owned(p) THEN Goto(p, "unlink") ELSE Leave(p, "idle")
  /\ UNCHANGED <<lock, created, files>>

ReleaseUnlink(p) ==
  /\ place[p] = "unlink"
  /\ lock' = NoLock
  /\ Leave(p, "idle")
  /\ UNCHANGED <<created, files>>

ReleaseFails(p) ==
  /\ place[p] \in {"release", "unlink"}
  /\ Leave(p, "idle")
  /\ UNCHANGED <<lock, created, files>>

-----------------------------------------------------------------------------
(* Mutant: any recorded owner counts as dead.                               *)
Recorded(owner) == owner \in Procs

(* assertMutationOwnerIsStale                                               *)
Dead(owner) == owner \in Procs /\ place[owner] = "down"

(* recoverStaleMutation: takes over a recorded lock of a dead owner (or     *)
(* creates one), removes the temporary event files one by one, verifies the *)
(* chain and releases. If it fails, the lock stays.                         *)
AdoptLock(p) ==
  /\ place[p] = "idle"
  /\ Dead(lock.owner)
  /\ place' = [place EXCEPT ![p] = "clean"]
  /\ work' = [work EXCEPT ![p] = "recover"]
  /\ lease' = [lease EXCEPT ![p] = lock]
  /\ UNCHANGED <<lock, created, files, head, found>>

RemoveTemp(p) ==
  /\ place[p] = "clean"
  /\ Owned(p)
  /\ \E t \in temps : temps' = temps \ {t}
  /\ UNCHANGED <<lock, created, chain, events, place, work, lease, head, found>>

(* Mutant: recovery accepts a directory without a state record.             *)
RecoverVerifyEmpty(p) ==
  /\ place[p] = "clean"
  /\ Scans(p)
  /\ Goto(p, "release")
  /\ UNCHANGED <<lock, created, files>>

RecoverVerify(p) ==
  /\ place[p] = "clean"
  /\ Scans(p)
  /\ chain # <<>>
  /\ Goto(p, "release")
  /\ UNCHANGED <<lock, created, files>>

RecoverFails(p) ==
  /\ place[p] = "clean"
  /\ Leave(p, "idle")
  /\ UNCHANGED <<lock, created, files>>

-----------------------------------------------------------------------------
(* read: refresh without a lease (no lock and no temporary event file, then *)
(* the chain), then the event file itself.                                  *)
ReadScan(p, id) ==
  /\ place[p] = "idle"
  /\ lock.token = 0
  /\ temps = {}
  /\ place' = [place EXCEPT ![p] = "parse"]
  /\ found' = [found EXCEPT ![p] = events[id]]
  /\ UNCHANGED <<lock, created, files, work, lease, head>>

(* Mutant: a reader keeps the head its instance was opened with.            *)
ReadParseOnce(p) ==
  /\ place[p] = "parse"
  /\ chain # <<>>
  /\ place' = [place EXCEPT ![p] = "read"]
  /\ head' = [head EXCEPT ![p] = 1]
  /\ UNCHANGED <<lock, created, files, work, lease, found>>

ReadParse(p) ==
  /\ place[p] = "parse"
  /\ chain # <<>>
  /\ place' = [place EXCEPT ![p] = "read"]
  /\ head' = [head EXCEPT ![p] = Len(chain)]
  /\ UNCHANGED <<lock, created, files, work, lease, found>>

ReadEvent(p) ==
  /\ place[p] \in {"parse", "read"}
  /\ Leave(p, "idle")
  /\ UNCHANGED <<lock, created, files>>

-----------------------------------------------------------------------------
(* A process dies anywhere; its lock and its temporary file stay. Its pid   *)
(* may be used again.                                                       *)
Crash(p) ==
  /\ place[p] # "down"
  /\ Leave(p, "down")
  /\ UNCHANGED <<lock, created, files>>

Restart(p) ==
  /\ place[p] = "down"
  /\ Goto(p, "idle")
  /\ UNCHANGED <<lock, created, files>>

AcquireStep(p) ==
  \/ \E operation \in Mutations : CreateLock(p, operation)
  \/ RecordOwner(p)
  \/ CreationFails(p)
  \/ FindFresh(p)
  \/ FreshLocked(p)
  \/ ReportLocked(p)

MutationStep(p) ==
  \/ Verify(p)
  \/ OperationFails(p)
  \/ LinkRecord(p)
  \/ StageEvent(p)
  \/ \E id \in Ids : LinkEvent(p, id)
  \/ LinkFails(p)
  \/ UnstageEvent(p)
  \/ UnstageFails(p)
  \/ ReleaseCheck(p)
  \/ ReleaseUnlink(p)
  \/ ReleaseFails(p)

RecoveryStep(p) ==
  \/ p \in Recoverers /\ AdoptLock(p)
  \/ RemoveTemp(p)
  \/ RecoverVerify(p)
  \/ RecoverFails(p)

ReadStep(p) ==
  \/ \E id \in Ids : ReadScan(p, id)
  \/ ReadParse(p)
  \/ ReadEvent(p)

Next ==
  \E p \in Procs :
    \/ AcquireStep(p)
    \/ MutationStep(p)
    \/ RecoveryStep(p)
    \/ ReadStep(p)
    \/ Crash(p)
    \/ Restart(p)

Spec == Init /\ [][Next]_vars

-----------------------------------------------------------------------------
(***************************************************************************)
(* Properties. They hold when at most one process recovers at a time.       *)
(***************************************************************************)

(* At most one process is inside the lease, a recovery that took over a     *)
(* dead process's lock included (lifecycle.ts withMutationLease).           *)
LeaseIsExclusive ==
  \A p, q \in Procs : place[p] \in InLease /\ place[q] \in InLease => p = q

(* The chain has one beginning that fits the events found, and grows by one *)
(* version of the same store; every event is written once, under the key    *)
(* that is active at that moment, whatever rotation, crash or recovery came *)
(* in between (lifecycle.ts write and rotate).                              *)
ImplementsKeyChain == KC!ChainSpec

(* A temporary event file that its writer has left behind stops every       *)
(* commit and every event write until a recovery removes it                 *)
(* (lifecycle.ts scanEventDirectory).                                       *)
Orphaned(t) ==
  \A p \in Procs :
    ~(place[p] \in {"link", "unstage", "release", "unlink"}
        /\ lease[p].token = t)

OrphanStep == (\E t \in temps : Orphaned(t)) => UNCHANGED <<chain, events>>

OrphanBlocksMutations == [][OrphanStep]_vars

(* No step removes the temporary file of a writer that is still between     *)
(* creating and removing it, other than that writer's own                   *)
(* (lifecycle.ts removeEventTemporaryFiles).                                *)
SpareStep ==
  \A p \in Procs :
    /\ place[p] \in {"link", "unstage"}
    /\ place'[p] = place[p]
    => lease[p].token \in temps'

RecoverySparesWriters == [][SpareStep]_vars

(* A lock without a recorded owner, and one from before the first state     *)
(* record, are removed by nobody once no mutation is inside them: recovery, *)
(* which may be at work there, refuses both                                 *)
(* (lifecycle.ts recoverStaleMutation, parseChain).                         *)
Abandoned ==
  /\ lock.token # 0
  /\ \A p \in Procs :
       place[p] \in InLease /\ Owned(p)
         => work[p] = "recover" /\ place[p] # "create"

BlockedStep == Abandoned /\ (lock.owner = NoOwner \/ chain = <<>>) => lock' = lock

AbandonedLockBlocks == [][BlockedStep]_vars

(* An event that was there when a read began is readable for it, although   *)
(* rotations run between its scan, its chain and its file                   *)
(* (lifecycle.ts read).                                                     *)
EventsStayReadable ==
  \A p \in Procs : place[p] = "read" => found[p] <= head[p]

(* docs/PHASE5_EVENT_KEY_LIFECYCLE.md: a race between initialisations ends  *)
(* in the one genesis commit or in a reload of the winner's state, so that  *)
(* nobody who lost it is turned away while the winner is at work            *)
(* (lifecycle.ts openOrInitializeFresh).                                    *)
Initializing(p) == work[p] = "initialize" /\ place[p] \in InLease

InitializationRaceIsDecided ==
  \A p, q \in Procs : ~(place[p] = "locked" /\ Initializing(q))
=============================================================================
