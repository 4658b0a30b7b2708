--------------------------- MODULE MCAttentionAlerts ---------------------------
(***************************************************************************)
(* AttentionAlerts for TLC.                                                *)
(***************************************************************************)
EXTENDS AttentionAlerts, TLC

OrderSymmetry == Permutations(Orders)

\* Alerts follow the records: an arrival raises one, and it goes with the record.
AlertsFollow == ArrivalsAlerted /\ HandledAlertsGo
=============================================================================
