------------------------------- MODULE MCAlerts -------------------------------
(***************************************************************************)
(* The instance of Alerts for TLC.  The slots of calls are alike.          *)
(***************************************************************************)
EXTENDS Alerts, TLC

MCAlike == Permutations(Calls)
=============================================================================
