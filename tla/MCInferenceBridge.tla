-------------------------- MODULE MCInferenceBridge --------------------------
(* Small instances of InferenceBridge for TLC.                             *)
EXTENDS InferenceBridge
=============================================================================
