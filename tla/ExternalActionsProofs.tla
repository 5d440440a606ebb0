------------------------- MODULE ExternalActionsProofs -------------------------
(***************************************************************************)
(* Proofs about the external-action pipeline, for every set of proposals    *)
(* and pipes and every budget. The inductive invariant Inv says who holds   *)
(* the slot, how far the runner of a held attempt is, and what a change of  *)
(* the campaign since a reservation leaves behind in the campaign revision. *)
(***************************************************************************)
EXTENDS ExternalActions, TLAPS, FiniteSetTheorems

(* A pipe past its reservation holds an active attempt of its own, and it   *)
(* knows whether that attempt has been started.                             *)
BeforeStart == {"start", "abort"}
AfterStart == Holding \ BeforeStart

HolderInv ==
  \A p \in Pipes :
    /\ pc[p] # "idle" => work[p] \in Proposals
    /\ pc[p] \in BeforeStart => attempt[work[p]].status = "reserved"
    /\ pc[p] \in AfterStart => attempt[work[p]].status = "running"

OneHolder ==
  \A p, q \in Pipes : pc[p] \in Holding /\ pc[q] \in Holding => p = q

(* Where a held attempt's runner is.                                        *)
RunnerInv ==
  /\ RunnerAtMostOnce
  /\ \A p \in Pipes :
       /\ pc[p] = "launch" => ran[work[p]] = 0
       /\ pc[p] \in {"running", "finish", "settle_failed"} => ran[work[p]] = 1

(* The revision a proposal binds was live when it was bound, so a later     *)
(* interruption has moved the campaign past it.                             *)
BindingInv ==
  \A x \in Proposals :
    /\ attempt[x].status # "none" => binding[x].status = "accepted"
    /\ binding[x].status # "none" =>
         /\ binding[x].revision <= revision
         /\ binding[x].revision = revision => live

InterruptionInv ==
  \A x \in interrupted :
    /\ attempt[x].status # "none"
    /\ attempt[x].status \in Active =>
         killActive \/ binding[x].revision < revision

Inv ==
  /\ TypeOK
  /\ AtMostOneActive
  /\ HolderInv
  /\ OneHolder
  /\ RunnerInv
  /\ BindingInv
  /\ InterruptionInv
  /\ SuccessUninterrupted

-----------------------------------------------------------------------------
LEMMA InitInv == Init => Inv
  <1> SUFFICES ASSUME Init PROVE Inv
    OBVIOUS
  <1> USE DEF Init
  <1>1. TypeOK
    BY DEF TypeOK, EvidenceInit, EvidenceTypeOK, NoBinding, NoAttempt, Status,
           Places
  <1>2. AtMostOneActive
    BY DEF AtMostOneActive, NoAttempt, Active
  <1>3. HolderInv /\ OneHolder
    BY DEF HolderInv, OneHolder, BeforeStart, AfterStart, Holding, Places
  <1>4. RunnerInv
    BY DEF RunnerInv, RunnerAtMostOnce
  <1>5. BindingInv
    BY DEF BindingInv, NoBinding, NoAttempt
  <1>6. InterruptionInv /\ SuccessUninterrupted
    BY DEF InterruptionInv, SuccessUninterrupted
  <1>7. QED
    BY <1>1, <1>2, <1>3, <1>4, <1>5, <1>6 DEF Inv

(* A step of the environment keeps Inv.                                     *)
LEMMA EnvironmentInv == Inv /\ Environment => Inv'
  <1> SUFFICES ASSUME Inv, Environment PROVE Inv'
    OBVIOUS
  <1> USE DEF Inv
  <1>1. UNCHANGED <<now, binding, attempt, pc, work, latch, ran>>
    BY DEF Environment, store, pipeline
  <1>2. /\ killActive' \in BOOLEAN /\ live' \in BOOLEAN /\ revision' \in Nat
        /\ revision <= revision'
        /\ revision' = revision => (live => live')
        /\ live /\ ~live' => revision < revision'
        /\ killActive /\ ~killActive' /\ live => revision < revision'
    <2> killActive \in BOOLEAN /\ live \in BOOLEAN /\ revision \in Nat
      BY DEF TypeOK, EvidenceTypeOK
    <2>1. CASE EngageKill
      <3>1. killActive' = TRUE /\ live' = live /\ revision' = revision
        BY <2>1 DEF EngageKill
      <3>2. killActive' /\ (live => live')
        BY <3>1, Zenon
      <3>3. QED
        BY <3>1, <3>2
    <2>2. CASE Interrupt
      <3>1. live' = FALSE /\ killActive' = killActive /\ revision' = revision + 1
        BY <2>2 DEF Interrupt
      <3>2. killActive' \in BOOLEAN /\ live' \in BOOLEAN
        BY <3>1, Zenon
      <3>3. revision' \in Nat /\ revision < revision' /\ revision # revision'
        BY <3>1
      <3>4. QED
        BY <3>2, <3>3
    <2>3. CASE Bump
      BY <2>3 DEF Bump
    <2>4. CASE GoLive
      <3>1. /\ ~killActive /\ killActive' = killActive /\ live' = TRUE
            /\ revision' = revision + 1
        BY <2>4 DEF GoLive
      <3>2. ~killActive' /\ live'
        BY <3>1, Zenon
      <3>3. QED
        BY <3>1, <3>2
    <2>5. CASE ClearKill
      <3>1. /\ killActive' = FALSE /\ live' = FALSE
            /\ revision' \in {revision, revision + 1}
        BY <2>5 DEF ClearKill
      <3>2. killActive' \in BOOLEAN /\ live' \in BOOLEAN
        BY <3>1, Zenon
      <3>3. live => revision' = revision + 1
        BY <2>5 DEF ClearKill
      <3>4. revision' \in Nat /\ revision <= revision'
        BY <3>1
      <3>5. live => revision < revision' /\ revision # revision'
        BY <3>3
      <3>6. QED
        BY <3>2, <3>4, <3>5
    <2>6. QED
      BY <2>1, <2>2, <2>3, <2>4, <2>5 DEF Environment, EvidenceNext
  <1>3. interrupted' \subseteq Proposals
    BY DEF Environment, ActiveAttempts, TypeOK
  <1>4. TypeOK'
    BY <1>1, <1>2, <1>3 DEF TypeOK, EvidenceTypeOK
  <1>5. AtMostOneActive' /\ HolderInv' /\ OneHolder' /\ RunnerInv'
    BY <1>1 DEF AtMostOneActive, HolderInv, OneHolder, RunnerInv,
                RunnerAtMostOnce
  <1>6. BindingInv'
    BY <1>1, <1>2 DEF BindingInv, TypeOK, EvidenceTypeOK
  <1>7. ASSUME NEW x \in interrupted', attempt'[x].status \in Active
        PROVE  killActive' \/ binding'[x].revision < revision'
    <2>1. x \in Proposals /\ attempt[x].status \in Active
      BY <1>1, <1>3, <1>7
    <2>2. binding[x].status # "none"
      BY <2>1 DEF BindingInv, Active
    <2>3. CASE x \in interrupted
      <3>1. binding[x].revision \in Nat /\ revision \in Nat
        BY <2>1 DEF TypeOK, EvidenceTypeOK
      <3>2. binding[x].revision <= revision
            /\ (binding[x].revision = revision => live)
        BY <2>1, <2>2 DEF BindingInv
      <3>3. killActive \/ binding[x].revision < revision
        BY <2>1, <2>3 DEF InterruptionInv
      <3>4. CASE binding[x].revision < revision'
        BY <1>1, <3>4
      <3>5. CASE binding[x].revision = revision
        <4>1. killActive /\ live
          BY <3>1, <3>2, <3>3, <3>5
        <4>2. QED
          BY <1>1, <1>2, <3>5, <4>1, Zenon
      <3>6. QED
        BY <1>2, <3>1, <3>2, <3>4, <3>5
    <2>4. CASE x \notin interrupted
      <3>1. killActive' \/ (live /\ ~live')
        BY <1>7, <2>4 DEF Environment
      <3>2. QED
        BY <1>1, <1>2, <2>1, <2>2, <3>1
        DEF BindingInv, TypeOK, EvidenceTypeOK
    <2>5. QED
      BY <2>3, <2>4
  <1>8. InterruptionInv'
    <2>1. \A x \in interrupted' : attempt'[x].status # "none"
      BY <1>1 DEF InterruptionInv, Environment, ActiveAttempts, Active
    <2>2. QED
      BY <1>7, <2>1 DEF InterruptionInv
  <1>9. SuccessUninterrupted'
    BY <1>1 DEF SuccessUninterrupted, Environment, ActiveAttempts, Active
  <1>10. QED
    BY <1>4, <1>5, <1>6, <1>8, <1>9

-----------------------------------------------------------------------------
(* The clock decides only whether a step is allowed.                        *)
LEMMA ClockInv == Inv /\ (Tick \/ ClockSetBack) => Inv'
  <1> SUFFICES ASSUME Inv, Tick \/ ClockSetBack PROVE Inv'
    OBVIOUS
  <1> USE DEF Inv
  <1>1. UNCHANGED <<evidence, store, pipeline, ghosts>>
    BY DEF Tick, ClockSetBack
  <1>2. now' \in Nat
    BY DEF Tick, ClockSetBack, TypeOK
  <1>3. TypeOK'
    BY <1>1, <1>2
    DEF TypeOK, EvidenceTypeOK, evidence, store, pipeline, ghosts
  <1>4. QED
    BY <1>1, <1>3
    DEF AtMostOneActive, HolderInv, OneHolder, RunnerInv, RunnerAtMostOnce,
        BindingInv, InterruptionInv, SuccessUninterrupted, evidence, store,
        pipeline, ghosts

(* A new approval binds the current, live revision of a proposal that has   *)
(* no attempt; a decision leaves the revision alone.                        *)
LEMMA ApprovalInv == Inv /\ ApprovalStep => Inv'
  <1> SUFFICES ASSUME Inv, ApprovalStep PROVE Inv'
    OBVIOUS
  <1> USE DEF Inv
  <1>1. UNCHANGED <<evidence, now, attempt, pipeline, ghosts>>
    BY DEF ApprovalStep, CreateApproval, DecideApproval
  <1> DEFINE
        Bound == [status : {"open", "accepted", "rejected"}, revision : Nat,
                  createdAt : Nat, decidedAt : Nat]
        Rebinds(x, b) ==
          /\ binding' = [binding EXCEPT ![x] = b]
          /\ binding[x].status \in {"none", "open"}
          /\ \/ b.revision = revision /\ live
             \/ b.revision = binding[x].revision /\ binding[x].status = "open"
  <1>2. PICK x \in Proposals, b \in Bound : Rebinds(x, b)
    <2>1. ASSUME NEW x \in Proposals, CreateApproval(x)
          PROVE  \E c \in Bound : Rebinds(x, c)
      <3> DEFINE b == [status |-> "open", revision |-> revision,
                       createdAt |-> now, decidedAt |-> 0]
      <3>1. binding' = [binding EXCEPT ![x] = b]
        BY <2>1 DEF CreateApproval
      <3>2. live /\ binding[x].status = "none"
        BY <2>1 DEF CreateApproval, ContextMatches
      <3>3. b \in Bound /\ b.revision = revision
        BY DEF TypeOK, EvidenceTypeOK
      <3>4. Rebinds(x, b)
        BY <3>1, <3>2, <3>3, Zenon
      <3>5. QED
        BY <3>3, <3>4, Zenon
    <2>2. ASSUME NEW x \in Proposals, NEW decision \in {"accepted", "rejected"},
                 DecideApproval(x, decision)
          PROVE  \E c \in Bound : Rebinds(x, c)
      <3> DEFINE b == [status |-> decision, revision |-> binding[x].revision,
                       createdAt |-> binding[x].createdAt, decidedAt |-> now]
      <3>1. binding' = [binding EXCEPT ![x] = b]
        BY <2>2 DEF DecideApproval, TypeOK
      <3>2. binding[x].status = "open"
        BY <2>2 DEF DecideApproval
      <3>3. b \in [status : {"open", "accepted", "rejected"}, revision : Nat,
                   createdAt : Nat, decidedAt : Nat]
            /\ b.revision = binding[x].revision
        BY DEF TypeOK
      <3>4. QED
        BY <3>1, <3>2, <3>3
    <2>3. QED
      BY <2>1, <2>2 DEF ApprovalStep
  <1>3. attempt[x].status = "none"
    BY <1>2 DEF BindingInv
  <1>4. \A y \in Proposals \ {x} : binding'[y] = binding[y]
    BY <1>2 DEF TypeOK
  <1>5. binding'[x] = b
    BY <1>2 DEF TypeOK
  <1>6. TypeOK'
    BY <1>1, <1>2
    DEF TypeOK, EvidenceTypeOK, evidence, pipeline, ghosts
  <1>7. AtMostOneActive' /\ HolderInv' /\ OneHolder' /\ RunnerInv'
    BY <1>1 DEF AtMostOneActive, HolderInv, OneHolder, RunnerInv,
                RunnerAtMostOnce, pipeline, ghosts
  <1>8. BindingInv'
    <2>1. ASSUME NEW y \in Proposals
          PROVE  /\ attempt[y].status # "none" => binding'[y].status = "accepted"
                 /\ binding'[y].status # "none" =>
                      /\ binding'[y].revision <= revision
                      /\ binding'[y].revision = revision => live
      <3>1. CASE y = x
        BY <1>2, <1>3, <1>5, <3>1 DEF BindingInv, TypeOK, EvidenceTypeOK
      <3>2. CASE y # x
        BY <1>4, <3>2 DEF BindingInv
      <3>3. QED
        BY <3>1, <3>2
    <2>2. QED
      BY <1>1, <2>1 DEF BindingInv, evidence
  <1>9. InterruptionInv' /\ SuccessUninterrupted'
    BY <1>1, <1>3, <1>4
    DEF InterruptionInv, SuccessUninterrupted, TypeOK, evidence, ghosts
  <1>10. QED
    BY <1>6, <1>7, <1>8, <1>9

-----------------------------------------------------------------------------
(* Steps of a pipe that write nothing to the store: the pipe ends, begins,  *)
(* or goes on with the attempt it holds.                                    *)
Continues == {<<"start", "abort">>, <<"launch", "settle_aborted">>,
              <<"running", "finish">>, <<"running", "settle_failed">>,
              <<"running", "settle_aborted">>, <<"finish", "settle_aborted">>}

Moves(p, place) ==
  /\ UNCHANGED <<evidence, now, store, ghosts>>
  /\ pc' = [pc EXCEPT ![p] = place]
  /\ \E x \in Proposals \cup {NoProposal} :
       /\ work' = [work EXCEPT ![p] = x]
       /\ place # "idle" => x \in Proposals
       /\ place \in Holding =>
            x = work[p] /\ <<pc[p], place>> \in Continues
  /\ latch' \in [Pipes -> BOOLEAN]

LEMMA MovesInv ==
  ASSUME NEW p \in Pipes, NEW place \in Places, Inv, Moves(p, place)
  PROVE  Inv'
  <1> USE DEF Inv
  <1>1. PICK x \in Proposals \cup {NoProposal} :
          /\ work' = [work EXCEPT ![p] = x]
          /\ place # "idle" => x \in Proposals
          /\ place \in Holding =>
               x = work[p] /\ <<pc[p], place>> \in Continues
    BY DEF Moves
  <1>2. UNCHANGED <<killActive, live, revision, now, binding, attempt, ran,
                    interrupted>>
    BY DEF Moves, evidence, store, ghosts
  <1>3. /\ pc'[p] = place /\ work'[p] = x
        /\ \A q \in Pipes \ {p} : pc'[q] = pc[q] /\ work'[q] = work[q]
    BY <1>1 DEF Moves, TypeOK
  <1>4. TypeOK'
    BY <1>1, <1>2 DEF TypeOK, EvidenceTypeOK, Moves
  <1>5. /\ place \in BeforeStart => pc[p] \in BeforeStart /\ x = work[p]
        /\ place \in AfterStart => pc[p] \in AfterStart /\ x = work[p]
        /\ place # "launch"
        /\ place \in {"running", "finish", "settle_failed"} => pc[p] = "running"
    BY <1>1 DEF Continues, BeforeStart, AfterStart, Holding, Places
  <1>6. HolderInv'
    BY <1>1, <1>2, <1>3, <1>5 DEF HolderInv
  <1>7. OneHolder'
    BY <1>3, <1>5 DEF OneHolder, BeforeStart, AfterStart, Holding, Places
  <1>8. RunnerInv'
    <2>1. RunnerAtMostOnce'
      BY <1>2 DEF RunnerInv, RunnerAtMostOnce
    <2>2. ASSUME NEW q \in Pipes
          PROVE  /\ pc'[q] = "launch" => ran[work'[q]] = 0
                 /\ pc'[q] \in {"running", "finish", "settle_failed"} =>
                      ran[work'[q]] = 1
      <3>1. CASE q = p
        BY <1>3, <1>5, <3>1
        DEF RunnerInv, AfterStart, BeforeStart, Holding, Places
      <3>2. CASE q # p
        BY <1>3, <3>2 DEF RunnerInv
      <3>3. QED
        BY <3>1, <3>2
    <2>3. QED
      BY <1>2, <2>1, <2>2 DEF RunnerInv
  <1>9. AtMostOneActive' /\ BindingInv' /\ InterruptionInv'
        /\ SuccessUninterrupted'
    BY <1>2 DEF AtMostOneActive, BindingInv, InterruptionInv,
                SuccessUninterrupted
  <1>10. QED
    BY <1>4, <1>6, <1>7, <1>8, <1>9

(* The actions that are such steps.                                         *)
Quiet(p) ==
  \/ \E x \in Proposals : Begin(p, x)
  \/ BeginKilled(p) \/ ReserveDenied(p) \/ StartDenied(p) \/ LaunchKilled(p)
  \/ RunnerAnswers(p) \/ MonitorTick(p) \/ FinishKilled(p)
  \/ BusyStep(p) \/ Crash(p)

LEMMA QuietMoves ==
  ASSUME NEW p \in Pipes, Inv, Quiet(p)
  PROVE  \E place \in Places : Moves(p, place)
  <1> USE DEF Inv
  <1>1. /\ latch \in [Pipes -> BOOLEAN]
        /\ work \in [Pipes -> Proposals \cup {NoProposal}]
        /\ pc[p] # "idle" => work[p] \in Proposals
    BY DEF TypeOK, HolderInv
  <1>2. work = [work EXCEPT ![p] = work[p]]
    BY <1>1
  <1>3. ASSUME NEW x \in Proposals, Begin(p, x)
        PROVE  Moves(p, "reserve")
    BY <1>1, <1>3 DEF Begin, Moves, Holding
  <1>4. ASSUME NEW place \in Places, Goto(p, place), pc[p] # "idle",
               UNCHANGED <<evidence, now, store, ghosts>>,
               <<pc[p], place>> \in Continues
        PROVE  Moves(p, place)
    BY <1>1, <1>2, <1>4 DEF Goto, Moves
  <1>5. ASSUME NEW place \in Places, Latch(p, place), pc[p] # "idle",
               UNCHANGED <<evidence, now, store, ghosts>>,
               <<pc[p], place>> \in Continues
        PROVE  Moves(p, place)
    <2>1. latch' \in [Pipes -> BOOLEAN] /\ place # "idle"
      BY <1>1, <1>5 DEF Latch, Continues
    <2>2. QED
      BY <1>1, <1>2, <1>5, <2>1 DEF Latch, Moves
  <1>6. ASSUME Return(p), UNCHANGED <<evidence, now, store, ghosts>>
        PROVE  Moves(p, "idle")
    BY <1>1, <1>6 DEF Return, Moves, Holding
  <1>7. ASSUME Latch(p, "idle"), UNCHANGED <<evidence, now, store, ghosts>>
        PROVE  Moves(p, "idle")
    BY <1>1, <1>7 DEF Latch, Moves, Holding
  <1>8. CASE \E x \in Proposals : Begin(p, x)
    BY <1>3, <1>8 DEF Places
  <1>9. CASE BeginKilled(p)
    <2>1. Moves(p, "idle")
      BY <1>7, <1>9 DEF BeginKilled
    <2>2. QED
      BY <2>1 DEF Places
  <1>10. CASE ReserveDenied(p)
    BY <1>6, <1>10 DEF ReserveDenied, Places
  <1>11. CASE StartDenied(p)
    BY <1>4, <1>5, <1>11 DEF StartDenied, Places, Continues
  <1>12. CASE LaunchKilled(p)
    BY <1>5, <1>12 DEF LaunchKilled, Places, Continues
  <1>13. CASE RunnerAnswers(p)
    BY <1>4, <1>13 DEF RunnerAnswers, Places, Continues
  <1>14. CASE MonitorTick(p)
    BY <1>5, <1>14 DEF MonitorTick, Places, Continues
  <1>15. CASE FinishKilled(p)
    BY <1>5, <1>15 DEF FinishKilled, Places, Continues
  <1>16. CASE BusyCheck(p)
    <2>1. CASE pc[p] = "idle"
      <3>1. Moves(p, "idle")
        BY <1>7, <1>16, <2>1 DEF BusyCheck
      <3>2. QED
        BY <3>1 DEF Places
    <2>2. CASE pc[p] # "idle"
      BY <1>5, <1>16, <2>2 DEF BusyCheck, Places, Continues
    <2>3. QED
      BY <2>1, <2>2
  <1>17. CASE BusyTransaction(p)
    BY <1>4, <1>6, <1>17 DEF BusyTransaction, Places, Continues
  <1>18. CASE Crash(p)
    <2>1. Moves(p, "idle")
      BY <1>1, <1>18 DEF Crash, Moves, Holding
    <2>2. QED
      BY <2>1 DEF Places
  <1>19. QED
    BY <1>8, <1>9, <1>10, <1>11, <1>12, <1>13, <1>14, <1>15, <1>16, <1>17,
       <1>18
    DEF Quiet, BusyStep

-----------------------------------------------------------------------------
(* Steps that write an attempt. A reservation needs a free slot, so no pipe *)
(* holds one, and a proposal that was never attempted was never interrupted.*)
LEMMA ReserveInv ==
  ASSUME NEW p \in Pipes, Inv, AuthorizeAndReserve(p)
  PROVE  Inv'
  <1> USE DEF Inv
  <1> DEFINE x == work[p]
             a == [status |-> "reserved", reservedAt |-> now, startedAt |-> 0]
  <1>1. /\ UNCHANGED <<killActive, live, revision, now, binding, ran, work,
                       latch, interrupted>>
        /\ pc[p] = "reserve"
        /\ pc' = [pc EXCEPT ![p] = "start"]
        /\ attempt' = [attempt EXCEPT ![x] = a]
    BY DEF AuthorizeAndReserve, Goto, evidence, ghosts
  <1>2. x \in Proposals
    BY <1>1 DEF HolderInv
  <1>3. /\ pc'[p] = "start" /\ \A q \in Pipes \ {p} : pc'[q] = pc[q]
        /\ attempt'[x] = a
        /\ \A y \in Proposals \ {x} : attempt'[y] = attempt[y]
    BY <1>1, <1>2 DEF TypeOK
  <1>4. /\ attempt[x].status = "none"
        /\ \A y \in Proposals : attempt[y].status \notin Active
        /\ binding[x].status = "accepted"
    BY <1>2 DEF AuthorizeAndReserve, WithinBudget, Attempted, ActiveAttempts,
                Authorized, BindingAccepted
  <1>5. \A q \in Pipes : pc[q] \notin Holding
    BY <1>4 DEF HolderInv, BeforeStart, AfterStart, Active, Holding
  <1>6. TypeOK'
    <2>1. a \in [status : Status, reservedAt : Nat, startedAt : Nat]
      BY DEF TypeOK, Status
    <2>2. QED
      BY <1>1, <1>2, <2>1 DEF TypeOK, EvidenceTypeOK, Places
  <1>7. AtMostOneActive'
    BY <1>3, <1>4 DEF AtMostOneActive
  <1>8. HolderInv' /\ OneHolder'
    <2>1. \A q \in Pipes \ {p} : pc'[q] \notin Holding
      BY <1>3, <1>5
    <2>2. OneHolder'
      BY <2>1 DEF OneHolder
    <2>3. HolderInv'
      BY <1>1, <1>2, <1>3, <2>1
      DEF HolderInv, BeforeStart, AfterStart, Holding, Places
    <2>4. QED
      BY <2>2, <2>3
  <1>9. RunnerInv'
    <2>1. ran[x] # 1
      BY <1>2, <1>4 DEF RunnerInv, RunnerAtMostOnce
    <2>2. RunnerAtMostOnce'
      BY <1>1, <1>2, <1>3, <2>1 DEF RunnerInv, RunnerAtMostOnce
    <2>3. QED
      BY <1>1, <1>3, <2>2 DEF RunnerInv
  <1>10. BindingInv'
    BY <1>1, <1>3, <1>4 DEF BindingInv
  <1>11. InterruptionInv' /\ SuccessUninterrupted'
    <2>1. x \notin interrupted
      BY <1>2, <1>4 DEF InterruptionInv
    <2>2. QED
      BY <1>1, <1>3, <2>1 DEF InterruptionInv, SuccessUninterrupted, TypeOK
  <1>12. QED
    BY <1>6, <1>7, <1>8, <1>9, <1>10, <1>11

(* A start turns the pipe's own reservation into a running attempt whose    *)
(* runner has not been launched.                                            *)
LEMMA StartInv ==
  ASSUME NEW p \in Pipes, Inv, StartAttempt(p)
  PROVE  Inv'
  <1> USE DEF Inv
  <1> DEFINE x == work[p]
             a == [status |-> "running", reservedAt |-> attempt[x].reservedAt,
                   startedAt |-> now]
  <1>1. /\ UNCHANGED <<killActive, live, revision, now, binding, ran, work,
                       latch, interrupted>>
        /\ pc[p] = "start"
        /\ pc' = [pc EXCEPT ![p] = "launch"]
    BY DEF StartAttempt, Goto, evidence, ghosts
  <1>2. x \in Proposals /\ attempt[x].status = "reserved"
    BY <1>1 DEF HolderInv, BeforeStart
  <1>3. attempt' = [attempt EXCEPT ![x] = a]
    BY <1>2 DEF StartAttempt, TypeOK
  <1>4. /\ pc'[p] = "launch" /\ \A q \in Pipes \ {p} : pc'[q] = pc[q]
        /\ attempt'[x] = a
        /\ \A y \in Proposals \ {x} : attempt'[y] = attempt[y]
    BY <1>1, <1>2, <1>3 DEF TypeOK
  <1>5. \A q \in Pipes \ {p} : pc[q] \notin Holding
    BY <1>1 DEF OneHolder, Holding, Places
  <1>6. TypeOK'
    <2>1. a \in [status : Status, reservedAt : Nat, startedAt : Nat]
      BY <1>2 DEF TypeOK, Status
    <2>2. QED
      BY <1>1, <1>2, <1>3, <2>1 DEF TypeOK, EvidenceTypeOK, Places
  <1>7. AtMostOneActive'
    BY <1>2, <1>4 DEF AtMostOneActive, Active
  <1>8. HolderInv' /\ OneHolder'
    <2>1. \A q \in Pipes \ {p} : pc'[q] \notin Holding
      BY <1>4, <1>5
    <2>2. OneHolder'
      BY <2>1 DEF OneHolder
    <2>3. HolderInv'
      BY <1>1, <1>2, <1>4, <2>1
      DEF HolderInv, BeforeStart, AfterStart, Holding, Places
    <2>4. QED
      BY <2>2, <2>3
  <1>9. RunnerInv'
    <2>1. ran[x] = 0
      <3>1. ran[x] \in Nat
        BY <1>2 DEF TypeOK
      <3>2. ran[x] <= 1 /\ ran[x] # 1
        BY <1>2 DEF RunnerInv, RunnerAtMostOnce
      <3>3. QED
        BY <3>1, <3>2
    <2>2. RunnerAtMostOnce'
      BY <1>1, <1>4, <2>1 DEF RunnerInv, RunnerAtMostOnce
    <2>3. QED
      BY <1>1, <1>4, <2>1, <2>2 DEF RunnerInv
  <1>10. BindingInv'
    BY <1>1, <1>2, <1>4 DEF BindingInv
  <1>11. InterruptionInv' /\ SuccessUninterrupted'
    BY <1>1, <1>2, <1>4
    DEF InterruptionInv, SuccessUninterrupted, TypeOK, Active
  <1>12. QED
    BY <1>6, <1>7, <1>8, <1>9, <1>10, <1>11

(* Only the holder of a running attempt launches its runner.                *)
LEMMA LaunchInv ==
  ASSUME NEW p \in Pipes, Inv, Launch(p)
  PROVE  Inv'
  <1> USE DEF Inv
  <1> DEFINE x == work[p]
  <1>1. /\ UNCHANGED <<killActive, live, revision, now, binding, attempt, work,
                       latch, interrupted>>
        /\ pc[p] = "launch"
        /\ pc' = [pc EXCEPT ![p] = "running"]
        /\ ran' = [ran EXCEPT ![x] = @ + 1]
    BY DEF Launch, Goto, evidence, store
  <1>2. x \in Proposals /\ attempt[x].status = "running" /\ ran[x] = 0
    BY <1>1 DEF HolderInv, AfterStart, BeforeStart, Holding, Places, RunnerInv
  <1>3. /\ pc'[p] = "running" /\ \A q \in Pipes \ {p} : pc'[q] = pc[q]
        /\ ran'[x] = 1 /\ \A y \in Proposals \ {x} : ran'[y] = ran[y]
    BY <1>1, <1>2 DEF TypeOK
  <1>4. \A q \in Pipes \ {p} : pc[q] \notin Holding
    BY <1>1 DEF OneHolder, Holding, Places
  <1>5. TypeOK'
    BY <1>1, <1>2 DEF TypeOK, EvidenceTypeOK, Places
  <1>6. HolderInv' /\ OneHolder'
    <2>1. \A q \in Pipes \ {p} : pc'[q] \notin Holding
      BY <1>3, <1>4
    <2>2. OneHolder'
      BY <2>1 DEF OneHolder
    <2>3. HolderInv'
      BY <1>1, <1>2, <1>3, <2>1
      DEF HolderInv, BeforeStart, AfterStart, Holding, Places
    <2>4. QED
      BY <2>2, <2>3
  <1>7. RunnerInv'
    <2>1. RunnerAtMostOnce'
      BY <1>1, <1>2, <1>3 DEF RunnerInv, RunnerAtMostOnce
    <2>2. \A q \in Pipes \ {p} :
            pc'[q] \notin {"launch", "running", "finish", "settle_failed"}
      BY <1>3, <1>4 DEF Holding, Places
    <2>3. QED
      BY <1>1, <1>3, <2>1, <2>2 DEF RunnerInv
  <1>8. AtMostOneActive' /\ BindingInv' /\ InterruptionInv'
        /\ SuccessUninterrupted'
    BY <1>1 DEF AtMostOneActive, BindingInv, InterruptionInv,
                SuccessUninterrupted
  <1>9. QED
    BY <1>5, <1>6, <1>7, <1>8

(* The three settlements: the holder ends its attempt and returns. Evidence *)
(* that is current at a success shows that nothing interrupted the attempt. *)
Settles(p) == SettleSucceeded(p) \/ SettleUnsuccessful(p) \/ AbortReservation(p)

LEMMA SettledBy ==
  ASSUME NEW p \in Pipes, Inv, Settles(p)
  PROVE  /\ pc[p] \in Holding
         /\ Return(p)
         /\ UNCHANGED <<evidence, now, binding, ghosts>>
         /\ \E s \in {"succeeded", "failed", "aborted"} :
              /\ SetStatus(work[p], s)
              /\ s = "succeeded" =>
                   /\ pc[p] = "finish"
                   /\ ~killActive /\ revision = binding[work[p]].revision
              /\ s = "failed" => pc[p] = "settle_failed"
  <1>1. CASE SettleSucceeded(p)
    <2>1. CASE FinishCurrent(work[p])
      <3>1. ~killActive /\ revision = binding[work[p]].revision
        BY <2>1 DEF FinishCurrent, Authorized, ContextMatches
      <3>2. SetStatus(work[p], "succeeded") /\ pc[p] = "finish"
        BY <1>1, <2>1 DEF SettleSucceeded
      <3>3. QED
        BY <1>1, <3>1, <3>2 DEF SettleSucceeded, Holding, Places
    <2>2. CASE ~FinishCurrent(work[p])
      <3>1. SetStatus(work[p], "aborted") /\ pc[p] = "finish"
        BY <1>1, <2>2 DEF SettleSucceeded
      <3>2. QED
        BY <1>1, <3>1 DEF SettleSucceeded, Holding, Places
    <2>3. QED
      BY <2>1, <2>2
  <1>2. CASE SettleUnsuccessful(p)
    <2>1. PICK s \in {"failed", "aborted"} :
            /\ SetStatus(work[p], s)
            /\ s = "failed" => pc[p] = "settle_failed"
      BY <1>2 DEF SettleUnsuccessful
    <2>2. QED
      BY <1>2, <2>1 DEF SettleUnsuccessful, Holding, Places
  <1>3. CASE AbortReservation(p)
    <2>1. SetStatus(work[p], "aborted")
      BY <1>3 DEF AbortReservation
    <2>2. QED
      BY <1>3, <2>1 DEF AbortReservation, Holding, Places
  <1>4. QED
    BY <1>1, <1>2, <1>3 DEF Settles

LEMMA SettlesInv ==
  ASSUME NEW p \in Pipes, Inv, Settles(p)
  PROVE  Inv'
  <1> USE DEF Inv
  <1> DEFINE x == work[p]
  <1>1. /\ pc[p] \in Holding /\ Return(p)
        /\ UNCHANGED <<killActive, live, revision, now, binding, ran,
                       interrupted>>
    BY SettledBy DEF evidence, ghosts
  <1>2. PICK s \in {"succeeded", "failed", "aborted"} :
          /\ SetStatus(x, s)
          /\ s = "succeeded" =>
               /\ pc[p] = "finish"
               /\ ~killActive /\ revision = binding[x].revision
    BY SettledBy
  <1>3. x \in Proposals /\ attempt[x].status \in Active
    BY <1>1 DEF HolderInv, AfterStart, BeforeStart, Holding, Places, Active
  <1>4. /\ attempt' = [attempt EXCEPT ![x].status = s]
        /\ pc' = [pc EXCEPT ![p] = "idle"]
        /\ work' = [work EXCEPT ![p] = NoProposal]
        /\ latch' = latch
    BY <1>1, <1>2 DEF SetStatus, Return
  <1>5. /\ pc'[p] = "idle"
        /\ \A q \in Pipes \ {p} : pc'[q] = pc[q] /\ work'[q] = work[q]
        /\ attempt'[x].status = s
        /\ \A y \in Proposals \ {x} : attempt'[y] = attempt[y]
    BY <1>3, <1>4 DEF TypeOK
  <1>6. \A q \in Pipes \ {p} : pc[q] \notin Holding
    BY <1>1 DEF OneHolder
  <1>7. TypeOK'
    <2>1. attempt' \in
            [Proposals -> [status : Status, reservedAt : Nat, startedAt : Nat]]
      BY <1>3, <1>4 DEF TypeOK, Status
    <2>2. QED
      BY <1>1, <1>4, <2>1 DEF TypeOK, EvidenceTypeOK, Places
  <1>8. AtMostOneActive'
    BY <1>5 DEF AtMostOneActive, Active
  <1>9. HolderInv' /\ OneHolder' /\ RunnerInv'
    <2>1. \A q \in Pipes : pc'[q] \notin Holding
      BY <1>5, <1>6 DEF Holding
    <2>2. OneHolder'
      BY <2>1 DEF OneHolder
    <2>3. \A q \in Pipes : pc'[q] # "idle" => work'[q] \in Proposals
      BY <1>5 DEF HolderInv
    <2>4. HolderInv'
      BY <2>1, <2>3 DEF HolderInv, BeforeStart, AfterStart, Holding, Places
    <2>5. RunnerAtMostOnce'
      BY <1>1, <1>2, <1>5 DEF RunnerInv, RunnerAtMostOnce
    <2>6. RunnerInv'
      BY <2>1, <2>5 DEF RunnerInv, Holding, Places
    <2>7. QED
      BY <2>2, <2>4, <2>6
  <1>10. BindingInv'
    BY <1>1, <1>3, <1>5 DEF BindingInv, Active
  <1>11. InterruptionInv'
    BY <1>1, <1>2, <1>3, <1>5 DEF InterruptionInv, Active, TypeOK
  <1>12. SuccessUninterrupted'
    <2>1. s = "succeeded" => x \notin interrupted
      <3>1. SUFFICES ASSUME s = "succeeded", x \in interrupted PROVE FALSE
        OBVIOUS
      <3>2. ~killActive /\ revision = binding[x].revision
        BY <1>2, <3>1
      <3>3. killActive \/ binding[x].revision < revision
        BY <1>3, <3>1 DEF InterruptionInv
      <3>4. binding[x].revision < revision
        BY <3>2, <3>3, Zenon
      <3>5. revision \in Nat
        BY DEF TypeOK, EvidenceTypeOK
      <3>6. QED
        BY <3>2, <3>4, <3>5
    <2>2. QED
      BY <1>1, <1>5, <2>1 DEF SuccessUninterrupted
  <1>13. QED
    BY <1>7, <1>8, <1>9, <1>10, <1>11, <1>12

-----------------------------------------------------------------------------
LEMMA NextInv == Inv /\ [Next]_vars => Inv'
  <1> SUFFICES ASSUME Inv, [Next]_vars PROVE Inv'
    OBVIOUS
  <1>1. CASE Environment
    BY <1>1, EnvironmentInv
  <1>2. CASE Tick \/ ClockSetBack
    BY <1>2, ClockInv
  <1>3. CASE ApprovalStep
    BY <1>3, ApprovalInv
  <1>4. ASSUME NEW p \in Pipes, PipeStep(p) \/ BusyStep(p) \/ Crash(p)
        PROVE  Inv'
    <2>1. CASE Quiet(p)
      BY <2>1, QuietMoves, MovesInv
    <2>2. CASE AuthorizeAndReserve(p)
      BY <2>2, ReserveInv
    <2>3. CASE StartAttempt(p)
      BY <2>3, StartInv
    <2>4. CASE Launch(p)
      BY <2>4, LaunchInv
    <2>5. CASE Settles(p)
      BY <2>5, SettlesInv
    <2>6. QED
      BY <1>4, <2>1, <2>2, <2>3, <2>4, <2>5 DEF PipeStep, Quiet, Settles
  <1>5. CASE UNCHANGED vars
    BY <1>5
    DEF Inv, TypeOK, EvidenceTypeOK, AtMostOneActive, HolderInv, OneHolder,
        RunnerInv, RunnerAtMostOnce, BindingInv, InterruptionInv,
        SuccessUninterrupted, vars, evidence, store, pipeline, ghosts
  <1>6. QED
    BY <1>1, <1>2, <1>3, <1>4, <1>5 DEF Next, BusyNext, ReliableNext

LEMMA Invariant == Spec => []Inv
  BY InitInv, NextInv, PTL DEF Spec

-----------------------------------------------------------------------------
(* Every variable keeps its type: in particular a pipe always knows the     *)
(* proposal it works on (pipeline.ts execute).                              *)
THEOREM TypeCorrect == Spec => []TypeOK
  <1>1. Inv => TypeOK
    BY DEF Inv
  <1>2. QED
    BY <1>1, Invariant, PTL

(* The slot is exclusive for any number of processes, proposals, crashes    *)
(* and busy databases (external-action-store.ts assertBudget).              *)
THEOREM SlotIsExclusive == Spec => []AtMostOneActive
  <1>1. Inv => AtMostOneActive
    BY DEF Inv
  <1>2. QED
    BY <1>1, Invariant, PTL

(* No two runners are awaited at once, in no two processes.                 *)
THEOREM RunnersExcludeEachOther == Spec => []OneRunnerAtATime
  <1>1. Inv => OneRunnerAtATime
    BY DEF Inv, OneHolder, OneRunnerAtATime, Holding, Places
  <1>2. QED
    BY <1>1, Invariant, PTL

(* A runner is launched at most once for a proposal, and only for an        *)
(* attempt that the store has recorded as started.                          *)
THEOREM RunnerLaunchedOnce == Spec => []RunnerAtMostOnce
  <1>1. Inv => RunnerAtMostOnce
    BY DEF Inv, RunnerInv
  <1>2. QED
    BY <1>1, Invariant, PTL

(* A recorded success was never interrupted by a kill or a pause, because   *)
(* an interruption moves the campaign past the revision the proposal binds. *)
THEOREM SuccessWasUninterrupted == Spec => []SuccessUninterrupted
  <1>1. Inv => SuccessUninterrupted
    BY DEF Inv
  <1>2. QED
    BY <1>1, Invariant, PTL

-----------------------------------------------------------------------------
(* Budgets. No step but a reservation changes which proposals have been     *)
(* attempted, or when.                                                      *)
ReservationsKept ==
  \A y \in Proposals :
    /\ attempt'[y].reservedAt = attempt[y].reservedAt
    /\ attempt'[y].status = "none" <=> attempt[y].status = "none"

LEMMA OnlyReservationsCount ==
  ASSUME Inv, [Next]_vars, \A p \in Pipes : ~AuthorizeAndReserve(p)
  PROVE  ReservationsKept
  <1> USE DEF Inv
  <1>1. ASSUME UNCHANGED attempt
        PROVE  ReservationsKept
    BY <1>1 DEF ReservationsKept
  <1>2. CASE Environment \/ Tick \/ ClockSetBack \/ ApprovalStep
    <2>1. UNCHANGED attempt
      BY <1>2
      DEF Environment, Tick, ClockSetBack, ApprovalStep, CreateApproval,
          DecideApproval, store
    <2>2. QED
      BY <1>1, <2>1
  <1>3. ASSUME NEW p \in Pipes, PipeStep(p) \/ BusyStep(p) \/ Crash(p)
        PROVE  ReservationsKept
    <2>1. CASE Quiet(p)
      <3>1. UNCHANGED attempt
        BY <2>1, QuietMoves DEF Moves, store
      <3>2. QED
        BY <1>1, <3>1
    <2>2. CASE StartAttempt(p)
      BY <2>2 DEF StartAttempt, StartCurrent, ReservationsKept, TypeOK
    <2>3. CASE Launch(p)
      <3>1. UNCHANGED attempt
        BY <2>3 DEF Launch, store
      <3>2. QED
        BY <1>1, <3>1
    <2>4. CASE SettleSucceeded(p)
      BY <2>4 DEF SettleSucceeded, SetStatus, ReservationsKept, TypeOK
    <2>5. CASE SettleUnsuccessful(p)
      BY <2>5 DEF SettleUnsuccessful, SetStatus, ReservationsKept, TypeOK
    <2>6. CASE AbortReservation(p)
      BY <2>6 DEF AbortReservation, SetStatus, ReservationsKept, TypeOK
    <2>7. QED
      BY <1>3, <2>1, <2>2, <2>3, <2>4, <2>5, <2>6
      DEF PipeStep, Quiet
  <1>4. CASE UNCHANGED vars
    BY <1>1, <1>4 DEF vars, store
  <1>5. QED
    BY <1>2, <1>3, <1>4 DEF Next, BusyNext, ReliableNext

(* The attempts that the rate counts together with x.                       *)
Together(x) ==
  {y \in Attempted :
     /\ attempt[x].reservedAt <= attempt[y].reservedAt
     /\ attempt[y].reservedAt <= attempt[x].reservedAt + Minute}

BudgetInv ==
  /\ IsFiniteSet(Attempted)
  /\ Cardinality(Attempted) <= MaxActions
  /\ Cardinality(Attempted) <= MaxRequests
  /\ RateRespected

LEMMA InitBudget == Init => BudgetInv
  <1> SUFFICES ASSUME Init PROVE BudgetInv
    OBVIOUS
  <1>1. Attempted = {}
    BY DEF Init, Attempted, NoAttempt
  <1>2. QED
    BY <1>1, FS_EmptySet, BudgetAssumption DEF BudgetInv, RateRespected

LEMMA KeptBudget ==
  ASSUME BudgetInv, ReservationsKept
  PROVE  BudgetInv'
  <1>1. Attempted' = Attempted
    BY DEF ReservationsKept, Attempted
  <1>2. ASSUME NEW x \in Attempted
        PROVE  Together(x)' = Together(x)
    BY <1>1, <1>2 DEF Together, ReservationsKept, Attempted
  <1>3. \A x \in Attempted : Cardinality(Together(x)) <= PerMinute
    BY DEF BudgetInv, RateRespected, Together
  <1>4. \A x \in Attempted' : Cardinality(Together(x)') <= PerMinute
    BY <1>1, <1>2, <1>3
  <1>5. RateRespected'
    BY <1>4 DEF RateRespected, Together
  <1>6. QED
    BY <1>1, <1>5 DEF BudgetInv

(* A reservation has found every earlier one in its own past, so that the   *)
(* attempts it is counted with lie in the window it has checked.            *)
LEMMA ReservedBudget ==
  ASSUME NEW p \in Pipes, Inv, BudgetInv, AuthorizeAndReserve(p)
  PROVE  BudgetInv'
  <1> USE BudgetAssumption
  <1> DEFINE x == work[p]
             Open == {y \in Attempted : InRateWindow(y, now)}
  <1>1. /\ x \in Proposals /\ x \notin Attempted
        /\ CountsLeft
        /\ attempt' = [attempt EXCEPT ![x] =
             [status |-> "reserved", reservedAt |-> now, startedAt |-> 0]]
    BY DEF Inv, HolderInv, AuthorizeAndReserve, WithinBudget
  <1>2. /\ attempt'[x].status = "reserved" /\ attempt'[x].reservedAt = now
        /\ \A y \in Proposals \ {x} : attempt'[y] = attempt[y]
    BY <1>1 DEF Inv, TypeOK
  <1>3. Attempted' = Attempted \cup {x}
    BY <1>1, <1>2 DEF Attempted
  <1>4. /\ IsFiniteSet(Attempted')
        /\ Cardinality(Attempted') = Cardinality(Attempted) + 1
        /\ Cardinality(Attempted) \in Nat
    BY <1>1, <1>3, FS_AddElement, FS_CardinalityType DEF BudgetInv
  <1>5. /\ Cardinality(Attempted') <= MaxActions
        /\ Cardinality(Attempted') <= MaxRequests
    BY <1>1, <1>4 DEF CountsLeft
  <1>6. /\ now \in Nat
        /\ \A y \in Attempted : attempt[y].reservedAt \in Nat
    BY DEF Inv, TypeOK, Attempted
  <1>7. \A y \in Attempted : y # x /\ y \in Proposals /\ attempt'[y] = attempt[y]
    BY <1>1, <1>2 DEF Attempted
  <1>8. ASSUME NEW T \in SUBSET Open
        PROVE  /\ IsFiniteSet(T) /\ Cardinality(T) \in Nat
               /\ Cardinality(T \cup {x}) <= PerMinute
    <2>1. IsFiniteSet(Open) /\ Cardinality(Open) < PerMinute
      BY <1>1, FS_Subset DEF BudgetInv, CountsLeft
    <2>2. IsFiniteSet(T) /\ Cardinality(T) <= Cardinality(Open)
      BY <2>1, FS_Subset
    <2>3. Cardinality(T) \in Nat /\ Cardinality(Open) \in Nat
      BY <2>1, <2>2, FS_CardinalityType
    <2>4. Cardinality(T \cup {x}) =
            IF x \in T THEN Cardinality(T) ELSE Cardinality(T) + 1
      BY <2>2, FS_AddElement, Zenon
    <2>5. QED
      BY <2>1, <2>2, <2>3, <2>4
  <1>9. ASSUME NEW z \in Attempted'
        PROVE  Cardinality(Together(z)') <= PerMinute
    <2>1. CASE z = x
      <3> DEFINE T == {y \in Attempted : attempt[y].reservedAt = now}
      <3>1. Together(z)' = T \cup {x}
        BY <1>1, <1>2, <1>3, <1>6, <1>7, <2>1 DEF Together, CountsLeft
      <3>2. T \in SUBSET Open
        BY <1>6 DEF InRateWindow
      <3>3. QED
        BY <1>8, <3>1, <3>2
    <2>2. CASE z # x /\ now <= attempt[z].reservedAt + Minute
      <3>1. z \in Attempted
        BY <1>3, <2>2
      <3>2. Together(z)' = Together(z) \cup {x}
        BY <1>1, <1>2, <1>3, <1>6, <1>7, <2>2, <3>1 DEF Together, CountsLeft
      <3>3. Together(z) \in SUBSET Open
        BY <1>6, <2>2, <3>1 DEF Together, InRateWindow
      <3>4. QED
        BY <1>8, <3>2, <3>3
    <2>3. CASE z # x /\ ~(now <= attempt[z].reservedAt + Minute)
      <3>1. z \in Attempted
        BY <1>3, <2>3
      <3>2. Together(z)' = Together(z)
        BY <1>2, <1>3, <1>7, <2>3, <3>1 DEF Together
      <3>3. QED
        BY <3>1, <3>2 DEF BudgetInv, RateRespected, Together
    <2>4. QED
      BY <2>1, <2>2, <2>3
  <1>10. RateRespected'
    BY <1>9 DEF RateRespected, Together
  <1>11. QED
    BY <1>4, <1>5, <1>10 DEF BudgetInv

LEMMA Budget == Spec => []BudgetInv
  <1>1. Inv /\ BudgetInv /\ [Next]_vars => BudgetInv'
    BY OnlyReservationsCount, KeptBudget, ReservedBudget
  <1>2. QED
    BY <1>1, InitBudget, Invariant, PTL DEF Spec

(* In no window of a minute are more attempts reserved than the rate of the *)
(* contract, for any number of processes and whatever the clock does        *)
(* (external-action-store.ts assertBudget).                                 *)
THEOREM RateIsRespected == Spec => []RateRespected
  <1>1. BudgetInv => RateRespected
    BY DEF BudgetInv
  <1>2. QED
    BY <1>1, Budget, PTL

(* No more attempts are ever reserved than the runtime budget and the       *)
(* contract allow, over all processes (external-action-store.ts             *)
(* assertBudget).                                                           *)
THEOREM BudgetsAreRespected ==
  Spec => [](/\ Cardinality(Attempted) <= MaxActions
             /\ Cardinality(Attempted) <= MaxRequests)
  <1>1. BudgetInv => /\ Cardinality(Attempted) <= MaxActions
                     /\ Cardinality(Attempted) <= MaxRequests
    BY DEF BudgetInv
  <1>2. QED
    BY <1>1, Budget, PTL

-----------------------------------------------------------------------------
(* Refinement. A step that writes the status of one attempt is a move of    *)
(* AttemptLifecycle.                                                        *)
StatusOf == [x \in Proposals |-> attempt[x].status]

LEMMA StatusMoves ==
  ASSUME NEW x \in Proposals, Inv,
         UNCHANGED ran,
         NEW from, attempt[x].status = from,
         NEW to, attempt'[x].status = to,
         \A y \in Proposals \ {x} : attempt'[y] = attempt[y]
  PROVE  Lifecycle!Move(x, from, to)
  <1>1. StatusOf' = [StatusOf EXCEPT ![x] = to]
    BY DEF StatusOf
  <1>2. StatusOf[x] = from
    BY DEF StatusOf
  <1>3. QED
    BY <1>1, <1>2 DEF Lifecycle!Move, StatusOf

LEMMA StepRefines ==
  ASSUME Inv, [Next]_vars
  PROVE  [Lifecycle!LifecycleNext]_(Lifecycle!lifecycle)
  <1> USE DEF Inv
  <1>1. ASSUME UNCHANGED <<attempt, ran>>
        PROVE  UNCHANGED Lifecycle!lifecycle
    BY <1>1 DEF Lifecycle!lifecycle
  <1>2. ASSUME NEW p \in Pipes, Quiet(p)
        PROVE  UNCHANGED <<attempt, ran>>
    BY <1>2, QuietMoves DEF Moves, store, ghosts
  <1>3. ASSUME NEW p \in Pipes, AuthorizeAndReserve(p)
        PROVE  Lifecycle!LifecycleNext
    <2>1. PICK x \in Proposals : x = work[p]
      BY <1>3 DEF AuthorizeAndReserve, HolderInv
    <2>2. /\ UNCHANGED ran
          /\ attempt' = [attempt EXCEPT ![x] =
               [status |-> "reserved", reservedAt |-> now, startedAt |-> 0]]
      BY <1>3, <2>1 DEF AuthorizeAndReserve, ghosts
    <2>3. /\ attempt[x].status = "none"
          /\ \A y \in Proposals : attempt[y].status \notin Active
      BY <1>3, <2>1
      DEF AuthorizeAndReserve, WithinBudget, Attempted, ActiveAttempts
    <2>4. Lifecycle!Move(x, "none", "reserved")
      BY <2>2, <2>3, StatusMoves DEF TypeOK
    <2>5. Lifecycle!Reserve(x)
      BY <2>3, <2>4 DEF Lifecycle!Reserve, Lifecycle!Active, Active
    <2>6. QED
      BY <2>5 DEF Lifecycle!LifecycleNext
  <1>4. ASSUME NEW p \in Pipes, StartAttempt(p)
        PROVE  Lifecycle!LifecycleNext
    <2>1. PICK x \in Proposals : x = work[p]
      BY <1>4 DEF StartAttempt, HolderInv
    <2>2. UNCHANGED ran /\ attempt[x].status = "reserved"
      BY <1>4, <2>1 DEF StartAttempt, StartCurrent, ghosts
    <2>3. attempt'[x].status = "running"
          /\ \A y \in Proposals \ {x} : attempt'[y] = attempt[y]
      BY <1>4, <2>1 DEF StartAttempt, TypeOK
    <2>4. Lifecycle!Run(x)
      BY <2>2, <2>3, StatusMoves DEF Lifecycle!Run
    <2>5. QED
      BY <2>4 DEF Lifecycle!LifecycleNext
  <1>5. ASSUME NEW p \in Pipes, Launch(p)
        PROVE  Lifecycle!LifecycleNext
    <2>1. PICK x \in Proposals : x = work[p]
      BY <1>5 DEF Launch, HolderInv
    <2>2. attempt[x].status = "running" /\ ran[x] = 0
      BY <1>5, <2>1
      DEF Launch, HolderInv, AfterStart, BeforeStart, Holding, Places, RunnerInv
    <2>3. ran' = [ran EXCEPT ![x] = 1] /\ UNCHANGED attempt
      BY <1>5, <2>1, <2>2 DEF Launch, store
    <2>4. Lifecycle!LaunchRunner(x)
      BY <2>2, <2>3 DEF Lifecycle!LaunchRunner
    <2>5. QED
      BY <2>4 DEF Lifecycle!LifecycleNext
  <1>6. ASSUME NEW p \in Pipes, Settles(p)
        PROVE  Lifecycle!LifecycleNext
    <2>1. pc[p] \in Holding /\ UNCHANGED ran
      BY <1>6, SettledBy DEF ghosts
    <2>2. PICK x \in Proposals : x = work[p]
      BY <2>1 DEF HolderInv, Holding
    <2>3. PICK s \in {"succeeded", "failed", "aborted"} :
            /\ SetStatus(x, s)
            /\ s = "succeeded" => pc[p] = "finish"
            /\ s = "failed" => pc[p] = "settle_failed"
      BY <1>6, <2>2, SettledBy
    <2>4. attempt'[x].status = s
          /\ \A y \in Proposals \ {x} : attempt'[y] = attempt[y]
      BY <2>3 DEF SetStatus, TypeOK
    <2>5. CASE pc[p] \in BeforeStart
      <3>1. attempt[x].status = "reserved" /\ s = "aborted"
        BY <2>2, <2>3, <2>5 DEF HolderInv, BeforeStart
      <3>2. Lifecycle!Cancel(x)
        BY <2>1, <2>4, <3>1, StatusMoves DEF Lifecycle!Cancel
      <3>3. QED
        BY <3>2 DEF Lifecycle!LifecycleNext
    <2>6. CASE pc[p] \in AfterStart
      <3>1. attempt[x].status = "running"
        BY <2>2, <2>6 DEF HolderInv
      <3>2. Lifecycle!Move(x, "running", s)
        BY <2>1, <2>4, <3>1, StatusMoves
      <3>3. s \in {"succeeded", "failed"} => ran[x] = 1
        BY <2>2, <2>3 DEF RunnerInv
      <3>4. Lifecycle!Finish(x)
        BY <3>2, <3>3 DEF Lifecycle!Finish
      <3>5. QED
        BY <3>4 DEF Lifecycle!LifecycleNext
    <2>7. QED
      BY <2>1, <2>5, <2>6 DEF AfterStart
  <1>7. ASSUME NEW p \in Pipes, PipeStep(p) \/ BusyStep(p) \/ Crash(p)
        PROVE  Lifecycle!LifecycleNext \/ UNCHANGED Lifecycle!lifecycle
    BY <1>1, <1>2, <1>3, <1>4, <1>5, <1>6, <1>7 DEF PipeStep, Quiet, Settles
  <1>8. CASE Environment \/ Tick \/ ClockSetBack \/ ApprovalStep
    <2>1. UNCHANGED <<attempt, ran>>
      BY <1>8 DEF Environment, Tick, ClockSetBack, ApprovalStep, CreateApproval,
                  DecideApproval, store, ghosts
    <2>2. QED
      BY <1>1, <2>1
  <1>9. CASE UNCHANGED vars
    <2>1. UNCHANGED <<attempt, ran>>
      BY <1>9 DEF vars, store, ghosts
    <2>2. QED
      BY <1>1, <2>1
  <1>10. QED
    BY <1>1, <1>7, <1>8, <1>9
    DEF Next, BusyNext, ReliableNext

(* The pipeline over the store implements AttemptLifecycle: one attempt at  *)
(* a time, once per proposal, an outcome only after a launched runner.      *)
THEOREM Refinement == Spec => ImplementsAttemptLifecycle
  <1>1. Init => Lifecycle!LifecycleInit
    BY DEF Init, NoAttempt, Lifecycle!LifecycleInit
  <1>2. QED
    BY <1>1, Invariant, StepRefines, PTL
    DEF Spec, ImplementsAttemptLifecycle, Lifecycle!LifecycleSpec
=============================================================================
