------------------------------- MODULE Dashboard -------------------------------
(***************************************************************************)
(* The local application of apps/dashboard/runtime.ts and the server of     *)
(* packages/dashboard/server.ts: one process that holds the guided product  *)
(* (LocalProduct) and leads the simulation (SimulationRun) on the same demo *)
(* application, over a database that other processes use too. Every POST    *)
(* route is an action; GET only reads.                                      *)
(*                                                                         *)
(* Abstractions: origin, host and CSRF checks, body parsing and the         *)
(* rendered state are left out; the memory of a process that is down is     *)
(* reset when it goes down. A handler awaits its body first and is then     *)
(* synchronous, except for the run itself.                                  *)
(***************************************************************************)
EXTENDS LocalProduct, SimulationRun

vars == <<productVars, simulationVars>>

TypeOK == LocalProductTypeOK /\ SimulationTypeOK

Init == SimulationInit /\ LocalProductInit

-----------------------------------------------------------------------------
(* startLocalApplication, up to the listening dashboard: the context of the *)
(* product is taken from this start's readiness and this start's demo.      *)
StartLocalApplication ==
  \/ EngageAtStart /\ UNCHANGED productVars
  \/ StartProcess /\ \E at \in 0..MaxTime : StartProduct(at)

(* The process ends at any point; its memory is gone.                       *)
Crash ==
  /\ CrashProcess
  /\ product' = NewProduct(0)
  /\ UNCHANGED context

-----------------------------------------------------------------------------
(* demoBindingValid: the digest of the demo is the one the product was      *)
(* bound to.                                                                *)
DemoBindingValid == demo = context.demo

(* Mutant: the drift of the demo is shown and not enforced.                 *)
PreconditionsWithoutDrift ==
  /\ NextIs("onboarding_secret_store_check") =>
       context.readiness.secretStore # "blocked"

(* assertLocalProductRuntimePreconditions                                   *)
RuntimePreconditions ==
  /\ DemoBindingValid
  /\ NextIs("onboarding_system_check") =>
       /\ context.readiness.database = "ready"
       /\ context.readiness.demoSaas = "ready"
  /\ NextIs("onboarding_secret_store_check") =>
       context.readiness.secretStore # "blocked"
  /\ NextIs("onboarding_initialize_demo") =>
       context.readiness.demoSaas = "ready"

LocalProductAction ==
  /\ LoopIsFree
  /\ RuntimePreconditions
  /\ \E at \in 0..MaxTime : Perform(at)
  /\ UNCHANGED simulationVars

(* The routes that assertSecureCoreReady guards; a simulation exists in     *)
(* every process that is ready.                                             *)
CoreReady == SecureCoreReady(context.readiness)

SimulationRoutes ==
  /\ CoreReady
  /\ StartRun \/ ImportProgram \/ DecideApproval
  /\ UNCHANGED productVars

(* Both kill-switch routes and every other process. Engaging is possible    *)
(* without the secure core.                                                 *)
SwitchRoutes == Others /\ UNCHANGED productVars

Run == RunStep /\ UNCHANGED productVars

Next ==
  \/ StartLocalApplication
  \/ Crash
  \/ LocalProductAction
  \/ SimulationRoutes
  \/ SwitchRoutes
  \/ Run

Spec == Init /\ [][Next]_vars

-----------------------------------------------------------------------------
(* Once the demo has moved away from what the product was bound to, nothing *)
(* changes the product any more until the process is started anew: its      *)
(* evidence and report keep describing a demo that is gone.                 *)
DriftFreezesProduct ==
  [][~DemoBindingValid /\ place \notin {"down", "start"} /\ place' # "down" =>
       product' = product]_vars
=============================================================================
