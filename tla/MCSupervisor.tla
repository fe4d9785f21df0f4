---------------------------- MODULE MCSupervisor ----------------------------
(* The thresholds of the code in units of five seconds.                     *)
EXTENDS SupervisorProps
=============================================================================
