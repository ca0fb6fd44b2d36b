------------------------------ MODULE MCAlerts ------------------------------
(* The alert model at the sizes the configurations give; no symmetry, since *)
(* its runs check liveness.                                                 *)
EXTENDS Alerts, TLC
=============================================================================
