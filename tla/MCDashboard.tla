----------------------------- MODULE MCDashboard -----------------------------
(* Instances of the local application for TLC.                              *)
EXTENDS Dashboard, TLC

MCDecisions == {1, 2}

(* A ready machine, one without keys, one that is not configured, and one   *)
(* that is not a Mac.                                                       *)
Ready == [platform |-> "darwin", minimumVersion |-> "valid",
          operator |-> "valid", keysStored |-> TRUE]
MCEnvironments ==
  {Ready, [Ready EXCEPT !.keysStored = FALSE],
   [Ready EXCEPT !.operator = "unset"],
   [Ready EXCEPT !.platform = "other"]}
=============================================================================
