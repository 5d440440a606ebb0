---------------------------- MODULE MCLocalProduct ----------------------------
(* Instances of the guided local product for TLC.                           *)
EXTENDS LocalProduct, TLC

(* Every environment a process can find.                                    *)
MCEnvironments == Environment
=============================================================================
