----------------------------- MODULE LocalRuntime -----------------------------
(***************************************************************************)
(* What the process finds out about its surroundings when it starts:        *)
(* apps/dashboard/runtime.ts prepares the secret store and the signer, and  *)
(* packages/local-runtime/readiness.ts turns the findings into statuses.    *)
(* Both are pure here: an environment goes in, a readiness comes out.       *)
(*                                                                         *)
(* Abstractions: a configured value is unset, valid or invalid; what the    *)
(* secret store answers is a field of the environment, for the keys are     *)
(* read once per start. The reason codes repeat the statuses.               *)
(***************************************************************************)
EXTENDS Naturals

Settings == {"unset", "valid", "invalid"}

Environment == [platform : {"darwin", "other"}, minimumVersion : Settings,
                operator : Settings, keysStored : BOOLEAN]

GateStatus == {"ready", "blocked"}
Status == GateStatus \cup {"setup_required"}

-----------------------------------------------------------------------------
(* configuredEventMinimum, configuredOperator: what cannot be parsed counts *)
(* as not configured, so that the secret store is not opened for it.        *)
Configured(env) == env.minimumVersion = "valid" /\ env.operator = "valid"

(* prepareSecureSimulation: signer and event key are loaded, or neither is. *)
SecretStoreProbe(env) ==
  CASE env.platform # "darwin" -> "unavailable"
    [] env.platform = "darwin" /\ ~Configured(env) -> "not_checked"
    [] env.platform = "darwin" /\ Configured(env) /\ env.keysStored ->
         "available"
    [] OTHER -> "error"

-----------------------------------------------------------------------------
ConfigurationStatus(setting) ==
  [unset |-> "setup_required", valid |-> "ready", invalid |-> "blocked"][setting]

SecretStoreStatus(env) ==
  [available |-> "ready", not_checked |-> "setup_required",
   unavailable |-> "blocked", error |-> "blocked"][SecretStoreProbe(env)]

(* deriveRuntimeReadiness, as runtime.ts calls it: by then the database is  *)
(* open and the demo server listens.                                        *)
DeriveRuntimeReadiness(env) ==
  [platform |-> IF env.platform = "darwin" THEN "ready" ELSE "blocked",
   minimumVersion |-> ConfigurationStatus(env.minimumVersion),
   operator |-> ConfigurationStatus(env.operator),
   secretStore |-> SecretStoreStatus(env),
   demoSaas |-> "ready",
   database |-> "ready"]

Readiness == [platform : GateStatus, minimumVersion : Status,
              operator : Status, secretStore : Status,
              demoSaas : GateStatus, database : GateStatus]

(* assertSecureCoreReady: every status is "ready".                          *)
SecureCoreReady(readiness) ==
  \A part \in DOMAIN readiness : readiness[part] = "ready"
=============================================================================
