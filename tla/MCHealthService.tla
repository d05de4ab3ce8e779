--------------------------- MODULE MCHealthService ---------------------------
(* Instances of HealthService for TLC: one fault of each severity.              *)
EXTENDS HealthService

MCFaults == {"service stopped", "disk full"}
MCSevere == {"disk full"}
=============================================================================
