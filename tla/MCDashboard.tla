----------------------------- MODULE MCDashboard -----------------------------
(* Instances of Dashboard, and of the job manager under it, for TLC.       *)
EXTENDS Dashboard

CONSTANTS j1, j2, r1, r2
=============================================================================
