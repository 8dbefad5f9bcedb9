-------------------------- MODULE MCMaintenanceVisits --------------------------
(* Instances of MaintenanceVisits for TLC.                                 *)
EXTENDS MaintenanceVisits, TLC

ShortMonths == <<3, 2, 3>>

===============================================================================
