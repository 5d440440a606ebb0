--------------------------- MODULE AttemptLifecycle ---------------------------
(***************************************************************************)
(* What the external-action subsystem promises about its attempts,          *)
(* whatever processes, transactions and crashes implement it: one attempt   *)
(* at a time holds the slot, a proposal is attempted once, its runner runs  *)
(* at most once and only while the attempt is running, and only an attempt  *)
(* whose runner ran succeeds or fails.                                      *)
(***************************************************************************)
EXTENDS Integers

CONSTANT Proposals

VARIABLES status,   \* of each proposal's attempt, "none" before it is reserved
          ran       \* how often each proposal's runner was launched

lifecycle == <<status, ran>>

Active == {"reserved", "running"}
Settled == {"succeeded", "failed", "aborted"}
Status == {"none"} \cup Active \cup Settled

LifecycleInit ==
  /\ status = [x \in Proposals |-> "none"]
  /\ ran = [x \in Proposals |-> 0]

Move(x, from, to) ==
  /\ status[x] = from
  /\ status' = [status EXCEPT ![x] = to]
  /\ UNCHANGED ran

Reserve(x) ==
  /\ \A y \in Proposals : status[y] \notin Active
  /\ Move(x, "none", "reserved")

Cancel(x) == Move(x, "reserved", "aborted")

Run(x) == Move(x, "reserved", "running")

LaunchRunner(x) ==
  /\ status[x] = "running"
  /\ ran[x] = 0
  /\ ran' = [ran EXCEPT ![x] = 1]
  /\ UNCHANGED status

Finish(x) ==
  \/ Move(x, "running", "aborted")
  \/ ran[x] = 1 /\ \E outcome \in {"succeeded", "failed"} :
                     Move(x, "running", outcome)

LifecycleNext ==
  \E x \in Proposals :
    Reserve(x) \/ Cancel(x) \/ Run(x) \/ LaunchRunner(x) \/ Finish(x)

LifecycleSpec == LifecycleInit /\ [][LifecycleNext]_lifecycle
=============================================================================
