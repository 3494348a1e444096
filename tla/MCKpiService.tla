----------------------------- MODULE MCKpiService -----------------------------
(* Instances of KpiService for TLC.                                          *)
EXTENDS KpiService

CONSTANTS kpi1, boot, admin
=============================================================================
