---------------------------- MODULE MCDashboard ----------------------------
(* Instances of the dashboard for TLC; every bound is a number in a cfg.   *)
EXTENDS Dashboard
=============================================================================
