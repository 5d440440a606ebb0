------------------------------- MODULE DemoSaas -------------------------------
(***************************************************************************)
(* The in-process demo application of packages/demo-saas/domain.ts. It is   *)
(* created with a fixture when the dashboard process starts and lives only  *)
(* in that process. Its digest is taken over the whole snapshot, so that    *)
(* the digest is the snapshot itself. Only the two operations that the      *)
(* program calls are modelled; its HTTP server only reads.                  *)
(***************************************************************************)
EXTENDS Naturals, FiniteSets

CONSTANT MaxRecords     \* MAX_RECORDS_PER_KIND

ASSUME CapacityAssumption == MaxRecords \in Nat \ {0}

TestObject(ref, canary) == [ref |-> ref, canary |-> canary]
SeededObject == TestObject("object-demo-001", "canary-demo-001")

Fixture == [revision |-> 1, testObjects |-> {SeededObject}, policyVersion |-> 1]

(* createTestObject: reference and canary must both be new.                 *)
CanCreateTestObject(demo, object) ==
  /\ Cardinality(demo.testObjects) < MaxRecords
  /\ \A o \in demo.testObjects : o.ref # object.ref /\ o.canary # object.canary

(* Mutant: the new object takes the place of the others.                    *)
CreateTestObjectAlone(demo, object) ==
  [demo EXCEPT !.revision = @ + 1, !.testObjects = {object}]

CreateTestObject(demo, object) ==
  [demo EXCEPT !.revision = @ + 1, !.testObjects = @ \cup {object}]

(* simulatePolicyDrift: the caller names the policy it expects to replace.  *)
CanSimulatePolicyDrift(demo, expectedVersion) ==
  demo.policyVersion = expectedVersion

SimulatePolicyDrift(demo) ==
  [demo EXCEPT !.revision = @ + 1, !.policyVersion = @ + 1]

(* localProductDemoBinding: the guided workflow binds to the fixture only.  *)
IsFixture(demo) == demo = Fixture
=============================================================================
